---------------------------- MODULE Spec2Model ----------------------------
(***************************************************************************)
(* PosterForge: folder-name parser, media-type detector, badge geometry    *)
(* and poster compositor.                                                  *)
(*                                                                         *)
(* Strings are sequences of one-character strings, so that the regular     *)
(* expressions of the scanner and the string conversions of the compositor *)
(* are computed character by character.  A JavaScript `undefined`/`null`   *)
(* is the empty tuple Undefined, a defined value v is the 1-tuple Some(v). *)
(***************************************************************************)
EXTENDS Integers, Sequences, FiniteSets, TLC

VARIABLES
    \* ---- scanner: parseFolderName -------------------------------------
    folderName,     \* the argument of parseFolderName
    parsed,         \* Undefined, or Some(result of parseFolderName(folderName))
    reparsed,       \* Undefined, or Some(result of parseFolderName(parsed.title))
    \* ---- compositor ----------------------------------------------------
    revision,       \* the revision of compositor/index.ts that runs
    posterBuffer,   \* the base image: [decodable, width, height] (0: no metadata)
    ratingSet,      \* the OMDBRatings argument: [imdb, rottenTomatoes, metacritic]
    options,        \* [tmdbRating (in tenths, or Undefined), style, showRatings]
    badgeList,      \* Undefined, or Some(a RatingBadge[])
    overlay,        \* Undefined, or Some([style, svg]) built from badgeList
    output,         \* Undefined, or Some(outcome of createRatedPoster)
    \* ---- scanner: detectMediaType -------------------------------------
    dirEntries,     \* what fs.readdirSync(folderPath) gives: Undefined when it
                    \* throws, else Some(sequence of [name, kind])
    mediaType,      \* Undefined, or Some(outcome of detectMediaType(folderPath))
    \* ---- processor: PosterProcessor -----------------------------------
    posterFiles,    \* per media folder: whether poster.jpg exists, and how often
                    \* it was written
    config,         \* this.config: [overwrite]
    catalog,        \* per media folder: what TMDB and OMDB answer for its title
    calls,          \* the calls of processAll, processSingle and preview
    effects,        \* the requests sent and the files written, by call
    \* ---- scanner: scanAllFolders --------------------------------------
    mediaFolders,   \* the configured media folder paths, as a sequence
    scanResult,     \* Undefined, or Some(the items of scanAllFolders(mediaFolders))
    \* ---- server: POST /api/process ------------------------------------
    isProcessing,   \* let isProcessing
    processResults, \* let processResults
    processProgress,\* let processProgress: [current, total]
    requests,       \* the POST /api/process requests so far: [status, call]
    \* ---- watcher: FolderWatcher ---------------------------------------
    watchers,       \* the base folders whose chokidar watcher is open
    processing,     \* this.processing
    debounceTimers, \* this.debounceTimers: per folder Undefined or Some(timer)
    timers,         \* the timers pending in the runtime: [folder, due]
    now,            \* the time, in seconds
    eventTimes,     \* per folder: the times of its two latest events
    jobs            \* the calls made by processNewFolder

parserVars == <<folderName, parsed, reparsed>>
compositorVars == <<revision, posterBuffer, ratingSet, options, badgeList, overlay, output>>
detectorVars == <<dirEntries, mediaType>>
processorVars == <<posterFiles, config, catalog, calls, effects>>
scanVars == <<mediaFolders, scanResult>>
serverVars == <<isProcessing, processResults, processProgress, requests>>
watcherVars == <<watchers, processing, debounceTimers, timers, now, eventTimes, jobs>>
vars == <<parserVars, compositorVars, detectorVars, processorVars, scanVars,
          serverVars, watcherVars>>

Undefined == <<>>
Some(v) == <<v>>
IsSome(o) == o # Undefined
Get(o) == o[1]

-----------------------------------------------------------------------------
(* Characters and strings *)

Digits == {"0", "1", "2", "3", "4", "5", "6", "7", "8", "9"}
IsDigit(c) == c \in Digits

DigitVal(c) ==
    CASE c = "0" -> 0 [] c = "1" -> 1 [] c = "2" -> 2 [] c = "3" -> 3
      [] c = "4" -> 4 [] c = "5" -> 5 [] c = "6" -> 6 [] c = "7" -> 7
      [] c = "8" -> 8 [] c = "9" -> 9

\* \s of a JavaScript regular expression, and the characters trim() removes
IsSpace(c) == c \in {" ", "\t", "\n"}

\* String.prototype.toLowerCase / the i flag, on the letters the model uses
Lower(c) ==
    CASE c = "A" -> "a" [] c = "B" -> "b" [] c = "D" -> "d" [] c = "E" -> "e"
      [] c = "I" -> "i" [] c = "K" -> "k" [] c = "M" -> "m" [] c = "N" -> "n"
      [] c = "O" -> "o" [] c = "P" -> "p" [] c = "S" -> "s" [] c = "T" -> "t"
      [] c = "V" -> "v" [] c = "X" -> "x"
      [] OTHER -> c

toLowerCase(s) == [i \in 1..Len(s) |-> Lower(s[i])]

\* s.slice(from - 1, to): the characters from..to (1-based, inclusive)
Slice(s, from, to) == SubSeq(s, from, to)

\* the literal lit (lower case) occurs in s at position i, ignoring case
LitAt(s, i, lit) ==
    /\ i >= 1
    /\ i + Len(lit) - 1 <= Len(s)
    /\ \A k \in 1..Len(lit) : Lower(s[i + k - 1]) = lit[k]

\* the position after the longest run of digits that starts at i (\d+, \d*)
RECURSIVE DigitsEnd(_, _)
DigitsEnd(s, i) ==
    IF i <= Len(s) /\ IsDigit(s[i]) THEN DigitsEnd(s, i + 1) ELSE i

\* parseInt(s, 10) of a string of digits
RECURSIVE DecimalValue(_)
DecimalValue(s) ==
    IF s = <<>> THEN 0
    ELSE 10 * DecimalValue(SubSeq(s, 1, Len(s) - 1)) + DigitVal(s[Len(s)])

-----------------------------------------------------------------------------
(* scanner/index.ts: the regular expressions *)

Openers == {"(", "[", "{"}
Closers == {")", "]", "}"}
IdOpeners == {"[", "{"}
IdClosers == {"]", "}"}
Separators == {"-", ":", "="}

\* A match is Undefined (null) or Some([index, last, group]): the matched
\* characters are s[index..last], group is capture group 1.
Match(index, last, group) == Some([index |-> index, last |-> last, group |-> group])

\* /[\[\{]<key>[-:=]?(<prefix>\d+)[\]\}]/i tried at position i
IdTokenAt(s, i, key, prefix) ==
    LET k == i + 1                       \* where the key starts
        j == k + Len(key)                \* after the key
        g == IF j <= Len(s) /\ s[j] \in Separators THEN j + 1 ELSE j
        d == g + Len(prefix)             \* where the digits start
        e == DigitsEnd(s, d)             \* after the digits
    IN  IF /\ i <= Len(s)
           /\ s[i] \in IdOpeners
           /\ LitAt(s, k, key)
           /\ LitAt(s, g, prefix)
           /\ e > d
           /\ e <= Len(s)
           /\ s[e] \in IdClosers
        THEN Match(i, e, Slice(s, g, e - 1))
        ELSE Undefined

\* (?:19|20)\d{2} at position d
YearDigitsAt(s, d) ==
    /\ d >= 1
    /\ d + 3 <= Len(s)
    /\ \/ (s[d] = "1" /\ s[d + 1] = "9")
       \/ (s[d] = "2" /\ s[d + 1] = "0")
    /\ IsDigit(s[d + 2])
    /\ IsDigit(s[d + 3])

\* /[\(\[\{]?((?:19|20)\d{2})[\)\]\}]?/ tried at position i
YEAR_PATTERN(s, i) ==
    LET d == IF i <= Len(s) /\ s[i] \in Openers THEN i + 1 ELSE i
        last == IF d + 4 <= Len(s) /\ s[d + 4] \in Closers THEN d + 4 ELSE d + 3
    IN  IF i <= Len(s) /\ YearDigitsAt(s, d)
        THEN Match(i, last, Slice(s, d, d + 3))
        ELSE Undefined

IMDB_PATTERN(s, i) == IdTokenAt(s, i, <<"i", "m", "d", "b">>, <<"t", "t">>)
TMDB_PATTERN(s, i) == IdTokenAt(s, i, <<"t", "m", "d", "b">>, <<>>)
TVDB_PATTERN(s, i) == IdTokenAt(s, i, <<"t", "v", "d", "b">>, <<>>)

PatternAt(pattern, s, i) ==
    CASE pattern = "IMDB" -> IMDB_PATTERN(s, i)
      [] pattern = "TMDB" -> TMDB_PATTERN(s, i)
      [] pattern = "TVDB" -> TVDB_PATTERN(s, i)
      [] pattern = "YEAR" -> YEAR_PATTERN(s, i)

\* the positions at which the pattern matches
MatchPositions(pattern, s) == {i \in 1..Len(s) : IsSome(PatternAt(pattern, s, i))}

Min(S) == CHOOSE x \in S : \A y \in S : x <= y
Max(S) == CHOOSE x \in S : \A y \in S : x >= y

\* name.match(PATTERN), no g flag: the leftmost match, or null
match(s, pattern) ==
    IF MatchPositions(pattern, s) = {} THEN Undefined
    ELSE PatternAt(pattern, s, Min(MatchPositions(pattern, s)))

\* a mutant of replace: the matched token is left in the working string
replaceNothing(s, pattern) == s

\* a mutant of replace: every match is removed (a g flag on the pattern)
RECURSIVE replaceAll(_, _)
replaceAll(s, pattern) ==
    IF MatchPositions(pattern, s) = {} THEN s
    ELSE LET m == Get(PatternAt(pattern, s, Min(MatchPositions(pattern, s))))
         IN  SubSeq(s, 1, m.index - 1)
               \o replaceAll(SubSeq(s, m.last + 1, Len(s)), pattern)

\* name.replace(PATTERN, ''), no g flag: the leftmost match is deleted
replace(s, pattern) ==
    IF MatchPositions(pattern, s) = {} THEN s
    ELSE LET m == Get(PatternAt(pattern, s, Min(MatchPositions(pattern, s))))
         IN  SubSeq(s, 1, m.index - 1) \o SubSeq(s, m.last + 1, Len(s))

-----------------------------------------------------------------------------
(* scanner/index.ts: parseFolderName *)

\* .replace(/[\[\]\(\)\{\}]/g, '')
removeBrackets(s) == SelectSeq(s, LAMBDA c : c \notin (Openers \cup Closers))

\* .replace(/\s+/g, ' ')
RECURSIVE normalizeWhitespace(_)
normalizeWhitespace(s) ==
    IF s = <<>> THEN <<>>
    ELSE IF IsSpace(s[1])
         THEN IF Len(s) >= 2 /\ IsSpace(s[2])
              THEN normalizeWhitespace(Tail(s))
              ELSE <<" ">> \o normalizeWhitespace(Tail(s))
         ELSE <<s[1]>> \o normalizeWhitespace(Tail(s))

\* .trim()
RECURSIVE trim(_)
trim(s) ==
    IF s = <<>> THEN s
    ELSE IF IsSpace(s[1]) THEN trim(Tail(s))
    ELSE IF IsSpace(s[Len(s)]) THEN trim(SubSeq(s, 1, Len(s) - 1))
    ELSE s

\* a mutant of cleanTitle: the ends are trimmed before the brackets go
cleanTitleTrimFirst(name) == normalizeWhitespace(removeBrackets(trim(name)))

\* a mutant of cleanTitle: the ends are not trimmed
cleanTitleNoTrim(name) == normalizeWhitespace(removeBrackets(name))

\* the title clean-up chain, lines 68-71
cleanTitle(name) == trim(normalizeWhitespace(removeBrackets(name)))

\* a mutant of matchGuard: the group is read without testing the match
matchGuardMissing(m) == TRUE

\* if (xMatch) { ... xMatch[1] ... }
matchGuard(m) == IsSome(m)

\* What one extraction step leaves, m being the outcome of name.match:
\* under the guard group 1 is read and the match deleted.  Reading [1] of
\* null throws a TypeError.
extractWith(m, name, pattern) ==
    [threw |-> matchGuard(m) /\ ~IsSome(m),
     group |-> IF matchGuard(m) /\ IsSome(m) THEN Some(Get(m).group) ELSE Undefined,
     name  |-> IF matchGuard(m) THEN replace(name, pattern) ELSE name]

\* One extraction step: match, then read and delete
extract(name, pattern) == extractWith(match(name, pattern), name, pattern)

\* lines 67-73: the title clean-up and the returned object
returnValue(imdbStep, tmdbStep, tvdbStep, yearStep) ==
    [threw  |-> imdbStep.threw \/ tmdbStep.threw \/ tvdbStep.threw \/ yearStep.threw,
     title  |-> cleanTitle(yearStep.name),
     year   |-> IF IsSome(yearStep.group)
                THEN Some(DecimalValue(Get(yearStep.group))) ELSE Undefined,
     imdbId |-> imdbStep.group,
     tmdbId |-> tmdbStep.group,
     tvdbId |-> tvdbStep.group]

\* lines 60-65, on the string the TVDB step left
extractYear(imdbStep, tmdbStep, tvdbStep) ==
    returnValue(imdbStep, tmdbStep, tvdbStep, extract(tvdbStep.name, "YEAR"))

\* lines 53-58, on the string the TMDB step left
extractTvdb(imdbStep, tmdbStep) ==
    extractYear(imdbStep, tmdbStep, extract(tmdbStep.name, "TVDB"))

\* lines 46-51, on the string the IMDB step left
extractTmdb(imdbStep) == extractTvdb(imdbStep, extract(imdbStep.name, "TMDB"))

\* lines 26-74
parseFolderName(fn) == extractTmdb(extract(fn, "IMDB"))

-----------------------------------------------------------------------------
(* scanner/index.ts: detectMediaType *)

VIDEO_EXTENSIONS ==
    { <<".", "m", "k", "v">>,
      <<".", "m", "p", "4">>,
      <<".", "a", "v", "i">>,
      <<".", "m", "4", "v">>,
      <<".", "m", "o", "v">>,
      <<".", "w", "m", "v">>,
      <<".", "t", "s">>,
      <<".", "m", "2", "t", "s">> }

\* path.extname(name): from the last dot on; empty when there is no dot, when
\* the only dot starts the name, and for ".."
extname(name) ==
    LET dots == {i \in 1..Len(name) : name[i] = "."}
    IN  IF dots = {} \/ Max(dots \cup {0}) = 1 \/ name = <<".", ".">> THEN <<>>
        ELSE SubSeq(name, Max(dots), Len(name))

\* the position after the run of whitespace that starts at i (\s*)
RECURSIVE SpacesEnd(_, _)
SpacesEnd(s, i) ==
    IF i <= Len(s) /\ IsSpace(s[i]) THEN SpacesEnd(s, i + 1) ELSE i

DigitAt(s, i) == i >= 1 /\ i <= Len(s) /\ IsDigit(s[i])

\* a mutant of seasonTest: the i flag is missing
seasonTestCaseSensitive(name) ==
    \/ /\ Len(name) >= 6
       /\ SubSeq(name, 1, 6) = <<"s", "e", "a", "s", "o", "n">>
       /\ DigitAt(name, SpacesEnd(name, 7))
    \/ Len(name) >= 1 /\ name[1] = "s" /\ DigitAt(name, SpacesEnd(name, 2))

\* /^(season|s)\s*\d+/i.test(name)
seasonTest(name) ==
    \/ LitAt(name, 1, <<"s", "e", "a", "s", "o", "n">>) /\ DigitAt(name, SpacesEnd(name, 7))
    \/ LitAt(name, 1, <<"s">>) /\ DigitAt(name, SpacesEnd(name, 2))

\* /s\d{1,2}e\d{1,2}|(\d{1,2})x(\d{1,2})/i.test(name)
episodeTest(name) ==
    \E i \in 1..Len(name) :
        \/ /\ LitAt(name, i, <<"s">>)
           /\ DigitAt(name, i + 1)
           /\ \/ LitAt(name, i + 2, <<"e">>) /\ DigitAt(name, i + 3)
              \/ DigitAt(name, i + 2) /\ LitAt(name, i + 3, <<"e">>) /\ DigitAt(name, i + 4)
        \/ /\ DigitAt(name, i)
           /\ \/ LitAt(name, i + 1, <<"x">>) /\ DigitAt(name, i + 2)
              \/ DigitAt(name, i + 1) /\ LitAt(name, i + 2, <<"x">>) /\ DigitAt(name, i + 3)

\* e.isDirectory() && /^(season|s)\s*\d+/i.test(e.name)
isSeasonFolder(e) == e.kind = "dir" /\ seasonTest(e.name)

\* a mutant of isVideoFile: the extension is not looked at
isVideoFileAnyExtension(e) == e.kind = "file"

\* e.isFile() && VIDEO_EXTENSIONS.includes(path.extname(e.name).toLowerCase())
isVideoFile(e) == e.kind = "file" /\ toLowerCase(extname(e.name)) \in VIDEO_EXTENSIONS

\* detectMediaType; readdirSync throws when the folder cannot be listed
detectMediaType(listing) ==
    IF listing = Undefined THEN [threw |-> TRUE, type |-> "none"]
    ELSE LET entries == Get(listing)
             hasSeasonFolders == \E i \in 1..Len(entries) : isSeasonFolder(entries[i])
             videoFiles == SelectSeq(entries, isVideoFile)
             hasEpisodePattern == \E i \in 1..Len(videoFiles) : episodeTest(videoFiles[i].name)
         IN  IF hasSeasonFolders THEN [threw |-> FALSE, type |-> "show"]
             ELSE IF hasEpisodePattern THEN [threw |-> FALSE, type |-> "show"]
             ELSE [threw |-> FALSE, type |-> "movie"]

-----------------------------------------------------------------------------
(* compositor/index.ts.  Three revisions of the file are modelled:           *)
(*   "v1"  compositor/index.ts lines 1-289   (createRatingBar, bar of 32 px) *)
(*   "v2"  compositor/index.ts lines 291-558 (createRatingBar, bar of 70 px) *)
(*   "p4"  unnamed/part_004                  (createBarOverlay, bar of 50 px)*)
(* Lengths are in units of 1/Unit pixel, so that fontSize * 0.6 = 16.8 and   *)
(* the halved (posterWidth - totalWidth) / 2 are whole numbers.              *)

Variants == {"v1", "v2", "p4"}

Unit == 20
Px(n) == n * Unit

BADGE_COLORS ==
    [imdb |-> "#F5C518", rt |-> "#FA320A", metacritic |-> "#66CC33", tmdb |-> "#01D277"]

BadgeTypes == {"imdb", "rt", "metacritic", "tmdb"}

\* String(n) for a natural number n
RECURSIVE NatToString(_)
NatToString(n) ==
    LET digit == CHOOSE c \in Digits : DigitVal(c) = n % 10
    IN  IF n < 10 THEN <<digit>> ELSE NatToString(n \div 10) \o <<digit>>

\* tmdbRating.toFixed(1), for a positive rating given in tenths
toFixed1(tenths) == NatToString(tenths \div 10) \o <<".">> \o NatToString(tenths % 10)

\* the first position at which the literal lit occurs in s, or 0
IndexOf(s, lit) ==
    LET at == {i \in 1..Len(s) : i + Len(lit) - 1 <= Len(s)
                                   /\ SubSeq(s, i, i + Len(lit) - 1) = lit}
    IN  IF at = {} THEN 0 ELSE Min(at)

\* s.replace(lit, ''): the first occurrence of the string lit is deleted
replaceString(s, lit) ==
    IF IndexOf(s, lit) = 0 THEN s
    ELSE SubSeq(s, 1, IndexOf(s, lit) - 1)
           \o SubSeq(s, IndexOf(s, lit) + Len(lit), Len(s))

\* a string or object is truthy unless it is null or the empty string
Truthy(o) == IsSome(o) /\ Get(o) # <<>>

\* tmdbRating && tmdbRating > 0
PositiveRating(tmdbRating) == IsSome(tmdbRating) /\ Get(tmdbRating) # 0 /\ Get(tmdbRating) > 0

\* a mutant of badgeLimitReached: the loop stops one badge late
badgeLimitReachedLate(badges) == Len(badges) > 3

\* if (badges.length >= 3) break
badgeLimitReached(badges) == Len(badges) >= 3

\* the badge one entry of showRatings contributes: <<badge>> or <<>>
badgeFor(variant, type, ratings, tmdbRating) ==
    IF type = "imdb" /\ IsSome(ratings.imdb)
    THEN <<[type  |-> "imdb",
            value |-> IF variant = "p4" THEN Get(ratings.imdb).rating
                      ELSE Get(ratings.imdb).rating \o <<"/", "1", "0">>,
            color |-> BADGE_COLORS.imdb]>>
    ELSE IF type = "rt" /\ Truthy(ratings.rottenTomatoes)
    THEN <<[type  |-> "rt",
            value |-> replaceString(Get(ratings.rottenTomatoes), <<"%">>) \o <<"%">>,
            color |-> BADGE_COLORS.rt]>>
    ELSE IF type = "metacritic" /\ Truthy(ratings.metacritic)
    THEN <<[type  |-> "metacritic",
            value |-> replaceString(Get(ratings.metacritic), <<"/", "1", "0", "0">>),
            color |-> BADGE_COLORS.metacritic]>>
    ELSE IF type = "tmdb" /\ PositiveRating(tmdbRating)
    THEN <<[type  |-> "tmdb",
            value |-> toFixed1(Get(tmdbRating)),
            color |-> BADGE_COLORS.tmdb]>>
    ELSE <<>>

\* the for loop of ratingsTooBadges over the rest of showRatings
RECURSIVE collectBadges(_, _, _, _, _)
collectBadges(variant, ratings, tmdbRating, rest, badges) ==
    IF rest = <<>> \/ badgeLimitReached(badges) THEN badges
    ELSE collectBadges(variant, ratings, tmdbRating, Tail(rest),
                       badges \o badgeFor(variant, Head(rest), ratings, tmdbRating))

ratingsTooBadges(variant, ratings, tmdbRating, showRatings) ==
    collectBadges(variant, ratings, tmdbRating, showRatings, <<>>)

-----------------------------------------------------------------------------
(* compositor/index.ts: the overlays.  An overlay is [width, height, items], *)
(* items[i] the drawing of badges[i]: its left edge x, top edge y, width,    *)
(* height, the fill color of its icon, and whether its icon or its value is *)
(* drawn (a backing rectangle alone does not count).                         *)

Item(type, x, y, width, height, color, drawn) ==
    [type |-> type, x |-> x, y |-> y, width |-> width, height |-> height,
     color |-> color, drawn |-> drawn]

\* parseInt(s): optional blanks, an optional sign, then digits; NaN is Undefined
parseInt(s) ==
    LET RECURSIVE skip(_)
        skip(i) == IF i <= Len(s) /\ IsSpace(s[i]) THEN skip(i + 1) ELSE i
        b == skip(1)
        signed == b <= Len(s) /\ s[b] \in {"+", "-"}
        d == IF signed THEN b + 1 ELSE b
        e == DigitsEnd(s, d)
    IN  IF e = d THEN Undefined
        ELSE IF signed /\ s[b] = "-" THEN Some(0 - DecimalValue(SubSeq(s, d, e - 1)))
        ELSE Some(DecimalValue(SubSeq(s, d, e - 1)))

\* parseInt(badge.value) || 0
scoreOf(value) ==
    IF IsSome(parseInt(value)) /\ Get(parseInt(value)) # 0 THEN Get(parseInt(value)) ELSE 0

\* a mutant of barMetacriticColor: 61 itself counts as mixed
barMetacriticColorOffByOne(value) ==
    IF scoreOf(value) < 40 THEN "#FF0000"
    ELSE IF scoreOf(value) <= 61 THEN "#FFCC33"
    ELSE "#66CC33"

\* v2 createRatingBar, lines 363-366
barMetacriticColor(value) ==
    IF scoreOf(value) < 40 THEN "#FF0000"
    ELSE IF scoreOf(value) < 61 THEN "#FFCC33"
    ELSE "#66CC33"

\* v2 createCornerOverlay, lines 427-430
cornerMetacriticColor(value) ==
    IF scoreOf(value) < 40 THEN "#FF0000"
    ELSE IF scoreOf(value) < 61 THEN "#FFCC33"
    ELSE "#66CC33"

\* v2 createMinimalOverlay, lines 451 and 456
minimalMetacriticColor(value) ==
    IF scoreOf(value) >= 61 THEN "#66CC33"
    ELSE IF scoreOf(value) >= 40 THEN "#FFCC33"
    ELSE "#FF0000"

\* v1 getBadgeWidth; v2 ratingWidths[i]; p4 badgeWidth
getBadgeWidth(variant, badge) ==
    CASE variant = "v1" ->
           Px(IF badge.type = "imdb" THEN 52 ELSE 34) + Len(badge.value) * Px(9)
      [] variant = "v2" ->
           IF badge.type = "metacritic" THEN Px(40) + Px(5)
           ELSE Px(40) + Px(10) + Len(badge.value) * ((Px(28) * 6) \div 10)
      [] variant = "p4" -> Px(70)

\* v1 gapBetweenBadges; v2 gapBetweenRatings; p4 the 12 px gap
gapBetweenBadges(variant) ==
    CASE variant = "v1" -> Px(20) [] variant = "v2" -> Px(30) [] variant = "p4" -> Px(12)

\* a mutant of posterBarHeight: the bar was made taller in createRatingBar
\* only, createRatedPoster still has 32
posterBarHeightStale(variant) == Px(32)

\* const barHeight of createRatedPoster (p4 hands it to createBarOverlay)
posterBarHeight(variant) ==
    CASE variant = "v1" -> Px(32) [] variant = "v2" -> Px(70) [] variant = "p4" -> Px(50)

\* const barHeight of createRatingBar; the barHeight parameter of createBarOverlay
barHeight(variant) ==
    CASE variant = "v1" -> Px(32) [] variant = "v2" -> Px(70)
      [] variant = "p4" -> posterBarHeight(variant)

RECURSIVE SumWidths(_, _)
SumWidths(variant, badges) ==
    IF badges = <<>> THEN 0
    ELSE getBadgeWidth(variant, Head(badges)) + SumWidths(variant, Tail(badges))

\* a mutant of totalWidth: a gap is counted after the last badge as well
totalWidthTrailingGap(variant, badges) ==
    SumWidths(variant, badges) + gapBetweenBadges(variant) * Len(badges)

\* the width of the badge group: the badge widths and the gaps between them
totalWidth(variant, badges) ==
    SumWidths(variant, badges) + gapBetweenBadges(variant) * (Len(badges) - 1)

\* a mutant of advance: the icon and its gap only, the text is forgotten
advanceIconOnly(variant, badge) == Px(40) + gapBetweenBadges(variant)

\* currentX += getBadgeWidth(badge) + gapBetweenBadges  (v2: ratingWidths[i])
advance(variant, badge) == getBadgeWidth(variant, badge) + gapBetweenBadges(variant)

\* what currentX has grown by after the badges of the list
RECURSIVE SumAdvance(_, _)
SumAdvance(variant, badges) ==
    IF badges = <<>> THEN 0
    ELSE advance(variant, Head(badges)) + SumAdvance(variant, Tail(badges))

\* the color of the icon a bar badge is drawn with
barColor(variant, badge) ==
    CASE variant = "v1" -> BADGE_COLORS[badge.type]
      [] variant = "v2" ->
           (CASE badge.type = "imdb" -> "#F5C518"
              [] badge.type = "rt" -> "#FA320A"
              [] badge.type = "metacritic" -> barMetacriticColor(badge.value)
              [] badge.type = "tmdb" -> "#0D253F")
      [] variant = "p4" -> badge.color

\* v1 and v2 createRatingBar, p4 createBarOverlay
createRatingBar(variant, badges, posterWidth) ==
    LET start == (Px(posterWidth) - totalWidth(variant, badges)) \div 2
        \* currentX before badge i: advanced once for each badge before it
        currentX(i) == start + SumAdvance(variant, SubSeq(badges, 1, i - 1))
    IN  [width  |-> Px(posterWidth),
         height |-> barHeight(variant),
         groupWidth |-> totalWidth(variant, badges),
         items  |-> [i \in 1..Len(badges) |->
                       Item(badges[i].type, currentX(i), 0,
                            getBadgeWidth(variant, badges[i]), barHeight(variant),
                            barColor(variant, badges[i]),
                            badges[i].type \in BadgeTypes)]]

\* a mutant of cornerBadgeY: the rows are closer than a badge is high
cornerBadgeYTooClose(variant, index) == Px(10) + index * Px(40)

\* v1, p4: const y = 10 + (index * 52); v2: const y = padding + (i * gap)
cornerBadgeY(variant, index) ==
    IF variant = "v2" THEN Px(12) + index * Px(55) ELSE Px(10) + index * Px(52)

\* v1 and p4 createCornerBadge / createCornerOverlay, v2 createCornerOverlay
createCornerOverlay(variant, badges, width, height) ==
    [width  |-> Px(width),
     height |-> Px(height),
     items  |-> [i \in 1..Len(badges) |->
        IF variant = "v2"
        THEN Item(badges[i].type, Px(12), cornerBadgeY(variant, i - 1), Px(45) + Px(60), Px(45),
                  CASE badges[i].type = "imdb" -> "#F5C518"
                    [] badges[i].type = "rt" -> "#FA320A"
                    [] badges[i].type = "metacritic" -> cornerMetacriticColor(badges[i].value)
                    [] OTHER -> "none",
                  badges[i].type \in {"imdb", "rt", "metacritic"})
        ELSE Item(badges[i].type, Px(10), cornerBadgeY(variant, i - 1), Px(95), Px(44),
                  badges[i].color, TRUE)]]

\* v1 and p4 createMinimalBadge / createMinimalOverlay, v2 createMinimalOverlay
createMinimalOverlay(variant, badges, width, height) ==
    [width  |-> Px(width),
     height |-> Px(height),
     items  |-> [i \in 1..Len(badges) |->
        IF variant = "v2"
        THEN Item(badges[i].type, Px(8) + (i - 1) * (Px(32) + Px(8)), Px(8), Px(32), Px(32),
                  CASE badges[i].type = "imdb" -> "#F5C518"
                    [] badges[i].type = "rt" -> "#FA320A"
                    [] badges[i].type = "metacritic" -> minimalMetacriticColor(badges[i].value)
                    [] OTHER -> "none",
                  badges[i].type \in {"imdb", "rt", "metacritic"})
        ELSE Item(badges[i].type, Px(8) + (i - 1) * Px(38), Px(8), Px(34), Px(26),
                  badges[i].color, TRUE)]]

createOverlay(variant, style, badges, width, height) ==
    IF style = "bar" THEN createRatingBar(variant, badges, width)
    ELSE IF style = "minimal" THEN createMinimalOverlay(variant, badges, width, height)
    ELSE createCornerOverlay(variant, badges, width, height)

\* a mutant of noBadges: the original is never handed back
noBadgesNever(badges) == FALSE

\* if (badges.length === 0) return posterBuffer
noBadges(badges) == Len(badges) = 0

\* createRatedPoster.  The outcome: the promise is fulfilled or rejected;
\* buffer tells whether the very posterBuffer object was returned or a newly
\* encoded JPEG; badges is the list that was collected, if it got that far;
\* composite is the one layer given to sharp's composite(); width and height
\* are the size of the image returned (0: the image states none).
createRatedPoster(variant, buffer, ratings, opts) ==
    IF ~buffer.decodable
    THEN \* sharp(posterBuffer).metadata() rejects
         [status |-> "rejected", buffer |-> "none", badges |-> Undefined,
          composite |-> Undefined, width |-> 0, height |-> 0]
    ELSE LET width == IF buffer.width # 0 THEN buffer.width ELSE 780
             height == IF buffer.height # 0 THEN buffer.height ELSE 1170
             badges == ratingsTooBadges(variant, ratings, opts.tmdbRating, opts.showRatings)
         IN  IF noBadges(badges)
             THEN [status |-> "fulfilled", buffer |-> "posterBuffer",
                   badges |-> Some(badges), composite |-> Undefined,
                   width |-> buffer.width, height |-> buffer.height]
             ELSE [status |-> "fulfilled", buffer |-> "jpeg",
                   badges |-> Some(badges),
                   \* composite() and jpeg() keep the size of the base image
                   width |-> buffer.width, height |-> buffer.height,
                   composite |->
                     Some([input |-> createOverlay(variant, opts.style, badges, width, height),
                           top   |-> IF opts.style = "bar"
                                     THEN Px(height) - posterBarHeight(variant) ELSE 0,
                           left  |-> 0])]

-----------------------------------------------------------------------------
(* Folder names the parser is run on: up to MaxFrags fragments in a row *)

MaxFrags == 4

Fragments ==
    { <<"[", "i", "m", "d", "b", "-", "t", "t">>,
      <<"{", "T", "M", "D", "B", ":">>,
      <<"[", "t", "v", "d", "b">>,
      <<"2", "0", "2", "0">>,
      <<"1", "9">>,
      <<"]">>,
      <<"(">>,
      <<" ">>,
      <<"a">> }

RECURSIVE Flatten(_)
Flatten(ss) == IF ss = <<>> THEN <<>> ELSE Head(ss) \o Flatten(Tail(ss))

FolderNames ==
    {Flatten(f) : f \in UNION {[1..n -> Fragments] : n \in 0..MaxFrags}}

NoRatings == [imdb |-> Undefined, rottenTomatoes |-> Undefined, metacritic |-> Undefined]
DefaultOptions ==
    [tmdbRating |-> Undefined, style |-> "bar", showRatings |-> <<"imdb", "rt", "metacritic">>]
FullSizePoster == [decodable |-> TRUE, width |-> 780, height |-> 1170]

\* the compositor is not running
CompositorIdle ==
    /\ revision = "v2"
    /\ posterBuffer = FullSizePoster
    /\ ratingSet = NoRatings
    /\ options = DefaultOptions
    /\ badgeList = Undefined
    /\ overlay = Undefined
    /\ output = Undefined

\* nothing is scanned, the server has had no request, no watcher is started
ScanIdle == mediaFolders = <<>> /\ scanResult = Undefined

ServerIdle ==
    /\ isProcessing = FALSE
    /\ processResults = <<>>
    /\ processProgress = [current |-> 0, total |-> 0]
    /\ requests = <<>>

WatcherIdle ==
    /\ watchers = {}
    /\ processing = {}
    /\ debounceTimers = <<>>
    /\ timers = {}
    /\ now = 0
    /\ eventTimes = <<>>
    /\ jobs = {}

\* no processor has been made
ProcessorIdle ==
    /\ posterFiles = <<>>
    /\ config = [overwrite |-> FALSE]
    /\ catalog = <<>>
    /\ calls = <<>>
    /\ effects = {}

\* the detector is not running
DetectorIdle ==
    /\ dirEntries = Some(<<>>)
    /\ mediaType = Undefined

\* the parser is not running
ParserIdle ==
    /\ folderName = <<>>
    /\ parsed = Undefined
    /\ reparsed = Undefined

ParserInit ==
    /\ folderName \in FolderNames
    /\ parsed = Undefined
    /\ reparsed = Undefined
    /\ CompositorIdle
    /\ DetectorIdle
    /\ ProcessorIdle
    /\ ScanIdle
    /\ ServerIdle
    /\ WatcherIdle

\* scanMediaFolder calls parseFolderName(entry.name)
ParseFolderName ==
    /\ parsed = Undefined
    /\ parsed' = Some(parseFolderName(folderName))
    /\ UNCHANGED <<folderName, reparsed, compositorVars, detectorVars, processorVars, scanVars, serverVars, watcherVars>>

\* parseFolderName applied to a title it returned
ReparseTitle ==
    /\ IsSome(parsed)
    /\ ~Get(parsed).threw
    /\ reparsed = Undefined
    /\ reparsed' = Some(parseFolderName(Get(parsed).title))
    /\ UNCHANGED <<folderName, parsed, compositorVars, detectorVars, processorVars, scanVars, serverVars, watcherVars>>

ParserNext == ParseFolderName \/ ReparseTitle

SpecParser == ParserInit /\ [][ParserNext]_vars

-----------------------------------------------------------------------------
(* The inputs of the compositor *)

MaxShowRatings == 4
MaxPosterRatings == 3
MaxBadges == 3

Styles == {"badges", "bar", "minimal"}
SourceNames == {"imdb", "rt", "metacritic", "tmdb", "trakt"}

SeqsUpTo(S, n) == UNION {[1..k -> S] : k \in 0..n}

\* OMDBClient.getRatings: each entry is null or a non-empty string
RatingSets ==
    [imdb : {Undefined, Some([rating |-> <<"8", ".", "5">>, votes |-> <<"9", "0", "1">>])},
     rottenTomatoes : {Undefined, Some(<<"9", "3">>)},
     metacritic : {Undefined, Some(<<"7", "5">>)}]

\* vote_average in tenths: absent, 0 (no votes) or 7.3
TmdbRatings == {Undefined, Some(0), Some(73)}

PosterBuffers ==
    { [decodable |-> FALSE, width |-> 0, height |-> 0],
      [decodable |-> TRUE, width |-> 780, height |-> 1170],
      [decodable |-> TRUE, width |-> 333, height |-> 500],
      [decodable |-> TRUE, width |-> 0, height |-> 0] }

\* poster widths: a usual one, an odd one, one narrower than any badge group
PosterSizes ==
    { [decodable |-> TRUE, width |-> 780, height |-> 1170],
      [decodable |-> TRUE, width |-> 333, height |-> 500],
      [decodable |-> TRUE, width |-> 60, height |-> 90] }

Badge(type, value) == [type |-> type, value |-> value, color |-> BADGE_COLORS[type]]

\* badges of every kind, with display values of different lengths
BadgeChoices ==
    { Badge("imdb", <<"8", ".", "5", "/", "1", "0">>),
      Badge("rt", <<"9", "3", "%">>),
      Badge("rt", <<"5", "%">>),
      Badge("tmdb", <<"7", ".", "3">>) }
    \cup { Badge("metacritic", v) :
             v \in { <<"7", "5">>, <<"5", "0">>, <<"2", "0">>, <<"a", "b", "c">>,
                     <<"6", "1">>, <<"6", "0">>, <<"4", "0">>, <<"3", "9">> } }

-----------------------------------------------------------------------------
(* ratingsTooBadges on its own *)

BadgesInit ==
    /\ revision \in {"v1", "v2"}
    /\ ratingSet \in RatingSets
    /\ options \in [tmdbRating : TmdbRatings, style : {"bar"},
                    showRatings : SeqsUpTo(SourceNames, MaxShowRatings)]
    /\ posterBuffer = FullSizePoster
    /\ badgeList = Undefined
    /\ overlay = Undefined
    /\ output = Undefined
    /\ ParserIdle
    /\ DetectorIdle
    /\ ProcessorIdle
    /\ ScanIdle
    /\ ServerIdle
    /\ WatcherIdle

RatingsTooBadges ==
    /\ badgeList = Undefined
    /\ badgeList' = Some(ratingsTooBadges(revision, ratingSet, options.tmdbRating,
                                          options.showRatings))
    /\ UNCHANGED <<revision, posterBuffer, ratingSet, options, overlay, output, parserVars, detectorVars, processorVars, scanVars, serverVars, watcherVars>>

SpecBadges == BadgesInit /\ [][RatingsTooBadges]_vars

-----------------------------------------------------------------------------
(* The overlay builders on a given badge list *)

OverlayInit ==
    /\ revision \in Variants
    /\ posterBuffer \in PosterSizes
    /\ badgeList \in {Some(b) : b \in SeqsUpTo(BadgeChoices, MaxBadges)}
    /\ ratingSet = NoRatings
    /\ options = DefaultOptions
    /\ overlay = Undefined
    /\ output = Undefined
    /\ ParserIdle
    /\ DetectorIdle
    /\ ProcessorIdle
    /\ ScanIdle
    /\ ServerIdle
    /\ WatcherIdle

CreateRatingBar ==
    /\ IsSome(badgeList)
    /\ overlay = Undefined
    /\ overlay' = Some([style |-> "bar",
                        svg |-> createRatingBar(revision, Get(badgeList), posterBuffer.width)])
    /\ UNCHANGED <<revision, posterBuffer, ratingSet, options, badgeList, output, parserVars, detectorVars, processorVars, scanVars, serverVars, watcherVars>>

CreateCornerOverlay ==
    /\ IsSome(badgeList)
    /\ overlay = Undefined
    /\ overlay' = Some([style |-> "badges",
                        svg |-> createCornerOverlay(revision, Get(badgeList),
                                    posterBuffer.width, posterBuffer.height)])
    /\ UNCHANGED <<revision, posterBuffer, ratingSet, options, badgeList, output, parserVars, detectorVars, processorVars, scanVars, serverVars, watcherVars>>

CreateMinimalOverlay ==
    /\ IsSome(badgeList)
    /\ overlay = Undefined
    /\ overlay' = Some([style |-> "minimal",
                        svg |-> createMinimalOverlay(revision, Get(badgeList),
                                    posterBuffer.width, posterBuffer.height)])
    /\ UNCHANGED <<revision, posterBuffer, ratingSet, options, badgeList, output, parserVars, detectorVars, processorVars, scanVars, serverVars, watcherVars>>

OverlayNext == CreateRatingBar \/ CreateCornerOverlay \/ CreateMinimalOverlay

SpecOverlay == OverlayInit /\ [][OverlayNext]_vars

-----------------------------------------------------------------------------
(* createRatedPoster *)

PosterInit ==
    /\ revision \in Variants
    /\ posterBuffer \in PosterBuffers
    /\ ratingSet \in RatingSets
    /\ options \in [tmdbRating : TmdbRatings, style : Styles,
                    showRatings : SeqsUpTo(SourceNames, MaxPosterRatings)]
    /\ badgeList = Undefined
    /\ overlay = Undefined
    /\ output = Undefined
    /\ ParserIdle
    /\ DetectorIdle
    /\ ProcessorIdle
    /\ ScanIdle
    /\ ServerIdle
    /\ WatcherIdle

CreateRatedPoster ==
    /\ output = Undefined
    /\ output' = Some(createRatedPoster(revision, posterBuffer, ratingSet, options))
    /\ UNCHANGED <<revision, posterBuffer, ratingSet, options, badgeList, overlay, parserVars, detectorVars, processorVars, scanVars, serverVars, watcherVars>>

SpecPoster == PosterInit /\ [][CreateRatedPoster]_vars

-----------------------------------------------------------------------------
(* detectMediaType on the listing of one folder *)

MaxEntries == 2

EntryNames ==
    { <<"S", "e", "a", "s", "o", "n", " ", "1">>,
      <<"s", "e", "a", "s", "o", "n", "2">>,
      <<"S", "0", "1">>,
      <<"S", "e", "a", "s", "o", "n">>,
      <<"S", "p", "e", "c", "i", "a", "l", "s">>,
      <<"s", "0", "1", "e", "0", "2", ".", "m", "k", "v">>,
      <<"1", "x", "0", "2", ".", "M", "P", "4">>,
      <<"S", "1", "E", "1", ".", "t", "x", "t">>,
      <<"m", "o", "v", "i", "e", ".", "m", "k", "v">>,
      <<"S", "1", "2", "E", "3">>,
      <<".", "m", "k", "v">>,
      <<"a", "1", "0", "X", "2", "b", ".", "m", "2", "t", "s">> }

\* a directory, a regular file, or anything else (a symbolic link, a socket)
EntryKinds == {"dir", "file", "other"}

Listings ==
    {Undefined} \cup {Some(l) : l \in SeqsUpTo([name : EntryNames, kind : EntryKinds], MaxEntries)}

DetectorInit ==
    /\ dirEntries \in Listings
    /\ mediaType = Undefined
    /\ ParserIdle
    /\ CompositorIdle
    /\ ProcessorIdle
    /\ ScanIdle
    /\ ServerIdle
    /\ WatcherIdle

\* scanMediaFolder calls detectMediaType(folderPath)
DetectMediaType ==
    /\ mediaType = Undefined
    /\ mediaType' = Some(detectMediaType(dirEntries))
    /\ UNCHANGED <<dirEntries, parserVars, compositorVars, processorVars, scanVars, serverVars, watcherVars>>

SpecDetector == DetectorInit /\ [][DetectMediaType]_vars

-----------------------------------------------------------------------------
(* processor.ts: PosterProcessor.  Calls of processAll, processSingle and   *)
(* preview run interleaved: an async method gives way at each await.  What  *)
(* TMDB and OMDB answer for a folder is fixed by the catalog.               *)

MaxCalls == 2

\* the media folders a scan lists, in the order it lists them
MediaFolders == <<"f1", "f2">>
FolderPaths == {MediaFolders[i] : i \in 1..Len(MediaFolders)}

\* the folders whose name carries an [imdb-tt...] token
NamedWithImdbId == {"f2"}

Scenario(find, imdbId, download, omdb) ==
    [find |-> find, imdbId |-> imdbId, download |-> download, omdb |-> omdb]

\* What the services answer for one title.  find: findMovie / findShow gives
\* a match with a poster, a match without poster_path, no match, or the
\* request fails; imdbId: the match has an IMDb id; download: the bytes
\* downloadPoster gives can be decoded or not, or the request fails; omdb:
\* OMDB has ratings, answers Response 'False', or the request fails.
Scenarios ==
    { Scenario("match", TRUE, "decodable", "data"),
      Scenario("match", TRUE, "decodable", "nodata"),
      Scenario("match", TRUE, "decodable", "fails"),
      Scenario("match", FALSE, "decodable", "data"),
      Scenario("match", TRUE, "undecodable", "data"),
      Scenario("match", TRUE, "throws", "data"),
      Scenario("noposter", TRUE, "decodable", "data"),
      Scenario("nomatch", FALSE, "decodable", "data"),
      Scenario("throws", FALSE, "decodable", "data") }

Catalogs ==
    {c \in [FolderPaths -> Scenarios] : c["f2"] = Scenario("match", TRUE, "decodable", "data")}

\* the poster.jpg files at the start: the second folder has one already, the
\* first may have one
PosterFiles ==
    {files \in [FolderPaths -> [exists : BOOLEAN, writes : {0}]] : files["f2"].exists}

\* the folders whose title is previewed
PreviewedFolders == {"f1"}

\* the folders processSingle is called for by its direct callers
SingleFolders == {"f1"}

\* a MediaItem, as far as processing looks at it (both branches on item.type
\* do the same with findMovie and findShow)
MediaItem(folderPath, hasPoster, imdbId) ==
    [folderPath |-> folderPath, hasPoster |-> hasPoster, imdbId |-> imdbId]

\* a ProcessResult
ProcessResult(item, success, message) ==
    [folderPath |-> item.folderPath, success |-> success, message |-> message]

\* the state of one call: the method, where it waits, its arguments and locals
NoCall ==
    [op |-> "none", pc |-> "unused", dryRun |-> FALSE, overwriteAll |-> FALSE,
     originalOverwrite |-> FALSE, items |-> <<>>, index |-> 0,
     item |-> MediaItem("", FALSE, FALSE), imdbId |-> FALSE, posterBuffer |-> "null",
     ratings |-> "empty", results |-> <<>>, progress |-> <<>>, value |-> "pending"]

\* scanAllFolders: one item per media folder, hasPoster as of now
scanAllFolders(files) ==
    [i \in 1..Len(MediaFolders) |->
        MediaItem(MediaFolders[i], files[MediaFolders[i]].exists,
                  MediaFolders[i] \in NamedWithImdbId)]

\* a mutant of getRatings: a failed request is not caught
getRatingsUncaught(scenario) ==
    CASE scenario.omdb = "data" -> "data"
      [] scenario.omdb = "nodata" -> "null"
      [] scenario.omdb = "fails" -> "threw"

\* OMDBClient.getRatings: the ratings, or null when OMDB has none or fails
getRatings(scenario) == IF scenario.omdb = "data" THEN "data" ELSE "null"

\* the OMDBRatings a call holds
ratingsOf(call) ==
    IF call.ratings = "data"
    THEN [imdb |-> Some([rating |-> <<"7", ".", "5">>, votes |-> <<"1">>]),
          rottenTomatoes |-> Some(<<"9", "0">>), metacritic |-> Undefined]
    ELSE NoRatings

\* the bytes a call holds, as sharp sees them
bufferOf(call) ==
    [decodable |-> call.posterBuffer = "decodable", width |-> 780, height |-> 1170]

\* a mutant of finishItem: progress is reported with the loop index i, not i + 1
finishItemCountsFromZero(call, result) ==
    IF call.op = "processSingle"
    THEN [call EXCEPT !.pc = "returned", !.results = <<result>>, !.value = "result"]
    ELSE [call EXCEPT !.pc = "delay",
                      !.results = Append(call.results, result),
                      !.progress = Append(call.progress,
                                          [current |-> call.index - 1, total |-> Len(call.items)])]

\* a processItem or processSingle call has its result: processSingle returns
\* it; processAll pushes it, reports progress and awaits delay(250)
finishItem(call, result) ==
    IF call.op = "processSingle"
    THEN [call EXCEPT !.pc = "returned", !.results = <<result>>, !.value = "result"]
    ELSE [call EXCEPT !.pc = "delay",
                      !.results = Append(call.results, result),
                      !.progress = Append(call.progress,
                                          [current |-> call.index, total |-> Len(call.items)])]

\* processItem up to its first await: the skip test, then findMovie / findShow
beginItem(call, item, overwrite) ==
    IF item.hasPoster /\ ~overwrite
    THEN finishItem([call EXCEPT !.item = item],
                    ProcessResult(item, TRUE, "Skipped (poster exists)"))
    ELSE [call EXCEPT !.pc = "find", !.item = item, !.imdbId = item.imdbId,
                      !.posterBuffer = "null", !.ratings = "empty"]

\* a mutant of wouldProcess: the overwrite setting is not looked at
wouldProcessIgnoringOverwrite(item, overwrite) == ~item.hasPoster

\* const wouldProcess = !item.hasPoster || this.config.overwrite
wouldProcess(item, overwrite) == ~item.hasPoster \/ overwrite

\* the results of a dry run over the items
dryRunResults(items, overwrite) ==
    [i \in 1..Len(items) |->
        ProcessResult(items[i], TRUE,
                      IF wouldProcess(items[i], overwrite)
                      THEN "Would generate poster" ELSE "Would skip (poster exists)")]

\* a request or a write the call c makes
Effect(c, kind, folderPath) == [call |-> c, kind |-> kind, folderPath |-> folderPath]

\* what a call does when an error is thrown inside its try block, or nothing
\* was found: preview returns null, processItem a result with success false
failItem(call, message) ==
    IF call.op = "preview"
    THEN [call EXCEPT !.pc = "returned", !.value = "null"]
    ELSE finishItem(call, ProcessResult(call.item, FALSE, message))

\* after the ratings: processItem always composes, preview only with a poster
composeOrReturn(call) ==
    IF call.op = "preview" /\ call.posterBuffer = "null"
    THEN [call EXCEPT !.pc = "returned", !.value = "preview without image"]
    ELSE [call EXCEPT !.pc = "compose"]

\* after the poster: if (imdbId) await this.omdb.getRatings(imdbId)
ratingsOrCompose(call) ==
    IF call.imdbId THEN [call EXCEPT !.pc = "omdb"] ELSE composeOrReturn(call)

\* the request a call has just sent, if it now waits for one
RequestSent(c, call) ==
    IF call.pc \in {"find", "download", "omdb"}
    THEN {Effect(c, call.pc, call.item.folderPath)} ELSE {}

\* calls are numbered in the order in which they are made
CanStart(c) ==
    /\ calls[c].op = "none"
    /\ \A d \in 1..(c - 1) : calls[d].op # "none"

\* the call c was made by the handler of POST /api/process
ByServer(c) == \E i \in 1..Len(requests) : requests[i].call = c

\* a mutant of stillProcessing: the flag is reset without a finally block
stillProcessingAfterThrow(call) == call.pc # "returned"

\* try { await processAll } finally { isProcessing = false }: the flag stays
\* set until the call settles
stillProcessing(call) == call.pc \notin {"returned", "threw"}

\* What the callers awaiting the call c do when it moves on: the onProgress
\* callback of the server and the end of its handler, and the finally block
\* of processNewFolder.
CallersSee(c) ==
    /\ processProgress' =
            IF ByServer(c) /\ Len(calls'[c].progress) > Len(calls[c].progress)
            THEN calls'[c].progress[Len(calls'[c].progress)] ELSE processProgress
    /\ processResults' =
            IF ByServer(c) /\ calls'[c].pc = "returned"
            THEN calls'[c].results ELSE processResults
    /\ isProcessing' =
            IF ByServer(c) THEN stillProcessing(calls'[c]) ELSE isProcessing
    /\ processing' =
            IF c \in jobs /\ calls'[c].pc = "returned"
            THEN processing \ {calls'[c].item.folderPath} ELSE processing
    /\ UNCHANGED <<requests, watchers, debounceTimers, timers, now, eventTimes, jobs>>

ProcessorInit ==
    /\ posterFiles \in PosterFiles
    /\ config \in [overwrite : BOOLEAN]
    /\ catalog \in Catalogs
    /\ calls = [c \in 1..MaxCalls |-> NoCall]
    /\ effects = {}
    /\ ParserIdle
    /\ CompositorIdle
    /\ DetectorIdle
    /\ ScanIdle
    /\ ServerIdle
    /\ WatcherIdle

\* processAll(onProgress, dryRun, overwriteAll) up to its first await; a dry
\* run has no await and runs to its end
processAll(c, dryRun, overwriteAll, scanThrows) ==
        LET items == scanAllFolders(posterFiles)
            overwrite == config.overwrite \/ overwriteAll
            call == [NoCall EXCEPT !.op = "processAll", !.dryRun = dryRun,
                                   !.overwriteAll = overwriteAll]
            scanned == [call EXCEPT !.items = items,
                                    !.originalOverwrite = config.overwrite]
            first == beginItem([scanned EXCEPT !.index = 1], items[1], overwrite)
        IN  IF scanThrows
            THEN /\ calls' = [calls EXCEPT ![c] = [call EXCEPT !.pc = "threw",
                                                                !.value = "rejected"]]
                 /\ UNCHANGED <<config, effects>>
            ELSE IF dryRun
            THEN /\ calls' = [calls EXCEPT ![c] =
                        [scanned EXCEPT !.pc = "returned",
                                        !.index = Len(items),
                                        !.results = dryRunResults(items, overwrite),
                                        !.progress = [i \in 1..Len(items) |->
                                            [current |-> i, total |-> Len(items)]],
                                        !.value = "results"]]
                 \* finally: this.config.overwrite = originalOverwrite
                 /\ config' = [config EXCEPT !.overwrite = scanned.originalOverwrite]
                 /\ UNCHANGED effects
            ELSE /\ calls' = [calls EXCEPT ![c] = first]
                 /\ config' = [config EXCEPT !.overwrite = overwrite]
                 /\ effects' = effects \cup RequestSent(c, first)

\* a call of processAll by the command line or another direct caller
StartProcessAll(c) ==
    /\ CanStart(c)
    /\ \E dryRun \in BOOLEAN, overwriteAll \in BOOLEAN, scanThrows \in BOOLEAN :
        \* a scan that throws does so before the arguments are looked at
        /\ scanThrows => ~dryRun /\ ~overwriteAll
        /\ processAll(c, dryRun, overwriteAll, scanThrows)
    /\ UNCHANGED <<posterFiles, catalog, parserVars, compositorVars, detectorVars, scanVars, serverVars, watcherVars>>

\* processSingle(itemInfo): the item is built with hasPoster: false
StartProcessSingle(c) ==
    /\ CanStart(c)
    /\ \E f \in SingleFolders :
        LET first == beginItem([NoCall EXCEPT !.op = "processSingle"],
                               MediaItem(f, FALSE, FALSE), config.overwrite)
        IN  /\ calls' = [calls EXCEPT ![c] = first]
            /\ effects' = effects \cup RequestSent(c, first)
    /\ UNCHANGED <<posterFiles, config, catalog, parserVars, compositorVars, detectorVars, scanVars, serverVars, watcherVars>>

\* preview(item) up to findMovie / findShow
StartPreview(c) ==
    /\ CanStart(c)
    /\ \E f \in PreviewedFolders :
        LET first == [NoCall EXCEPT !.op = "preview", !.pc = "find",
                                    !.item = MediaItem(f, FALSE, FALSE)]
        IN  /\ calls' = [calls EXCEPT ![c] = first]
            /\ effects' = effects \cup RequestSent(c, first)
    /\ UNCHANGED <<posterFiles, config, catalog, parserVars, compositorVars, detectorVars, scanVars, serverVars, watcherVars>>

\* findMovie / findShow settles
FindResponds(c) ==
    /\ calls[c].pc = "find"
    /\ LET call == calls[c]
           s == catalog[call.item.folderPath]
           next ==
             CASE s.find = "throws" -> failItem(call, "Request failed")
               [] s.find = "nomatch" -> failItem(call, "Not found on TMDB")
               [] s.find = "noposter" ->
                    IF call.op = "preview"
                    THEN ratingsOrCompose([call EXCEPT !.imdbId = s.imdbId])
                    ELSE failItem(call, "Not found on TMDB")
               [] s.find = "match" ->
                    [call EXCEPT !.pc = "download",
                                 !.imdbId = IF call.op = "preview" THEN s.imdbId
                                            ELSE call.imdbId \/ s.imdbId]
       IN  /\ calls' = [calls EXCEPT ![c] = next]
           /\ effects' = effects \cup RequestSent(c, next)
    /\ UNCHANGED <<posterFiles, config, catalog, parserVars, compositorVars, detectorVars, scanVars>>
    /\ CallersSee(c)

\* downloadPoster settles
DownloadResponds(c) ==
    /\ calls[c].pc = "download"
    /\ LET call == calls[c]
           s == catalog[call.item.folderPath]
           next == IF s.download = "throws" THEN failItem(call, "Request failed")
                   ELSE ratingsOrCompose([call EXCEPT !.posterBuffer = s.download])
       IN  /\ calls' = [calls EXCEPT ![c] = next]
           /\ effects' = effects \cup RequestSent(c, next)
    /\ UNCHANGED <<posterFiles, config, catalog, parserVars, compositorVars, detectorVars, scanVars>>
    /\ CallersSee(c)

\* getRatings settles
OmdbResponds(c) ==
    /\ calls[c].pc = "omdb"
    /\ LET call == calls[c]
           answer == getRatings(catalog[call.item.folderPath])
           next == IF answer = "threw" THEN failItem(call, "Request failed")
                   ELSE composeOrReturn([call EXCEPT !.ratings =
                            IF answer = "data" THEN "data" ELSE "empty"])
       IN  calls' = [calls EXCEPT ![c] = next]
    /\ UNCHANGED <<posterFiles, config, catalog, effects, parserVars, compositorVars, detectorVars, scanVars>>
    /\ CallersSee(c)

\* createRatedPoster settles; processItem then writes poster.jpg
ComposeResponds(c) ==
    /\ calls[c].pc = "compose"
    /\ LET call == calls[c]
           f == call.item.folderPath
           rated == createRatedPoster(revision, bufferOf(call), ratingsOf(call), DefaultOptions)
       IN  IF rated.status = "rejected"
           THEN /\ calls' = [calls EXCEPT ![c] =
                        failItem(call, "Input buffer contains unsupported image format")]
                /\ UNCHANGED <<posterFiles, effects>>
           ELSE IF call.op = "preview"
           THEN /\ calls' = [calls EXCEPT ![c] = [call EXCEPT !.pc = "returned",
                                                              !.value = "preview"]]
                /\ UNCHANGED <<posterFiles, effects>>
           ELSE /\ posterFiles' = [posterFiles EXCEPT ![f] =
                        [exists |-> TRUE, writes |-> posterFiles[f].writes + 1]]
                /\ effects' = effects \cup {Effect(c, "write", f)}
                /\ calls' = [calls EXCEPT ![c] =
                        finishItem(call, ProcessResult(call.item, TRUE, "Poster created"))]
    /\ UNCHANGED <<config, catalog, parserVars, compositorVars, detectorVars, scanVars>>
    /\ CallersSee(c)

\* delay(250) is over: the next item, or the end of processAll
DelayElapses(c) ==
    /\ calls[c].pc = "delay"
    /\ LET call == calls[c]
           next == beginItem([call EXCEPT !.index = call.index + 1],
                             call.items[call.index + 1], config.overwrite)
       IN  IF call.index < Len(call.items)
           THEN /\ calls' = [calls EXCEPT ![c] = next]
                /\ effects' = effects \cup RequestSent(c, next)
                /\ UNCHANGED config
           ELSE /\ calls' = [calls EXCEPT ![c] = [call EXCEPT !.pc = "returned",
                                                              !.value = "results"]]
                \* finally: this.config.overwrite = originalOverwrite
                /\ config' = [config EXCEPT !.overwrite = call.originalOverwrite]
                /\ UNCHANGED effects
    /\ UNCHANGED <<posterFiles, catalog, parserVars, compositorVars, detectorVars, scanVars>>
    /\ CallersSee(c)

ProcessorNext ==
    \E c \in 1..MaxCalls :
        \/ StartProcessAll(c)
        \/ StartProcessSingle(c)
        \/ StartPreview(c)
        \/ FindResponds(c)
        \/ DownloadResponds(c)
        \/ OmdbResponds(c)
        \/ ComposeResponds(c)
        \/ DelayElapses(c)

SpecProcessor == ProcessorInit /\ [][ProcessorNext]_vars

-----------------------------------------------------------------------------
(* The scan of the media folders *)

MaxFolders == 3

\* the values MEDIA_FOLDERS may list: two spellings of one folder, another
\* folder, and a folder that does not exist
ConfiguredPaths == {"/a", "/a/", "/b", "/gone"}

\* the path without its trailing separator, as path.join normalises it
normalize(p) == IF p = "/a/" THEN "/a" ELSE p

\* path.join(mediaFolderPath, entry.name)
join(mediaFolderPath, name) == <<normalize(mediaFolderPath), name>>

\* fs.readdirSync(mediaFolderPath, { withFileTypes: true }): Undefined when
\* fs.existsSync(mediaFolderPath) is false
readdir(mediaFolderPath) ==
    CASE normalize(mediaFolderPath) = "/a" ->
            Some(<< [name |-> "Alien (1979)", isDirectory |-> TRUE],
                    [name |-> ".trash", isDirectory |-> TRUE],
                    [name |-> "notes.txt", isDirectory |-> FALSE] >>)
      [] normalize(mediaFolderPath) = "/b" ->
            Some(<< [name |-> "Alien (1979)", isDirectory |-> TRUE],
                    [name |-> "@eaDir", isDirectory |-> TRUE],
                    [name |-> "Heat", isDirectory |-> TRUE] >>)
      [] OTHER -> Undefined

\* entry.name.startsWith('.') || entry.name.startsWith('@')
isSkipped(name) == name \in {".trash", "@eaDir"}

\* the loop of scanMediaFolder over the first n entries
RECURSIVE scanEntries(_, _, _)
scanEntries(mediaFolderPath, entries, n) ==
    IF n = 0 THEN <<>>
    ELSE LET entry == entries[n]
             items == scanEntries(mediaFolderPath, entries, n - 1)
         IN  IF ~entry.isDirectory \/ isSkipped(entry.name) THEN items
             ELSE Append(items, [folderPath |-> join(mediaFolderPath, entry.name),
                                 folderName |-> entry.name])

\* scanMediaFolder(mediaFolderPath)
scanMediaFolder(mediaFolderPath) ==
    IF readdir(mediaFolderPath) = Undefined THEN <<>>
    ELSE scanEntries(mediaFolderPath, Get(readdir(mediaFolderPath)),
                     Len(Get(readdir(mediaFolderPath))))

\* scanAllFolders(folderPaths): allItems after the loop
RECURSIVE allItems(_)
allItems(folderPaths) ==
    IF folderPaths = <<>> THEN <<>>
    ELSE allItems(SubSeq(folderPaths, 1, Len(folderPaths) - 1))
            \o scanMediaFolder(folderPaths[Len(folderPaths)])

ScanInit ==
    /\ mediaFolders \in SeqsUpTo(ConfiguredPaths, MaxFolders)
    /\ scanResult = Undefined
    /\ ParserIdle
    /\ CompositorIdle
    /\ DetectorIdle
    /\ ProcessorIdle
    /\ ServerIdle
    /\ WatcherIdle

\* processor.scan(): scanAllFolders(this.config.mediaFolders)
ScanAllFolders ==
    /\ scanResult = Undefined
    /\ scanResult' = Some(allItems(mediaFolders))
    /\ UNCHANGED <<mediaFolders, parserVars, compositorVars, detectorVars,
                   processorVars, serverVars, watcherVars>>

SpecScan == ScanInit /\ [][ScanAllFolders]_vars

-----------------------------------------------------------------------------
(* The server: POST /api/process *)

MaxRequests == 3

\* a mutant of accepts: the isProcessing test is missing
acceptsAlways(busy) == TRUE

\* if (isProcessing) return res.status(409)
accepts(busy) == ~busy

\* The handler of POST /api/process from its start up to its first await
\* that has to wait: the test of isProcessing, the reset of the results, the
\* answer, and processAll up to its first request.  A dry run and a scan
\* that throws settle at once, and the handler ends with them.
PostProcess ==
    /\ Len(requests) < MaxRequests
    /\ IF ~accepts(isProcessing)
       THEN /\ requests' = Append(requests, [status |-> 409, call |-> 0])
            /\ UNCHANGED <<isProcessing, processResults, processProgress, processorVars>>
       ELSE \E c \in 1..MaxCalls :
            /\ CanStart(c)
            /\ \E dryRun \in BOOLEAN, scanThrows \in BOOLEAN :
                    processAll(c, dryRun, FALSE, scanThrows)
            /\ requests' = Append(requests, [status |-> 200, call |-> c])
            /\ isProcessing' = stillProcessing(calls'[c])
            /\ processResults' =
                    IF calls'[c].pc = "returned" THEN calls'[c].results ELSE <<>>
            /\ processProgress' =
                    IF calls'[c].progress = <<>> THEN [current |-> 0, total |-> 0]
                    ELSE calls'[c].progress[Len(calls'[c].progress)]
            /\ UNCHANGED <<posterFiles, catalog>>
    /\ UNCHANGED <<parserVars, compositorVars, detectorVars, scanVars, watcherVars>>

\* the requests of a bulk run settle
Responds ==
    \E c \in 1..MaxCalls :
        \/ FindResponds(c)
        \/ DownloadResponds(c)
        \/ OmdbResponds(c)
        \/ ComposeResponds(c)
        \/ DelayElapses(c)

SpecServer == ProcessorInit /\ [][PostProcess \/ Responds]_vars

\* every request and every delay(250) of a run settles in the end
SpecServerLive == SpecServer /\ WF_vars(Responds)

-----------------------------------------------------------------------------
(* The folder watcher *)

\* the clock counts ticks of 2500 ms
MaxTime == 5

\* setTimeout(..., 5000), in ticks
Debounce == 2

\* the paths of the addDir and add events, relative to the base folder: a
\* new top-level folder, or a folder or video file inside one
DirPaths == {<<"f1">>, <<"f1", "Season 1">>, <<"f2">>}

\* the timer handleNewDirectory sets at the time t
Timer(fullPath, t) == [folder |-> fullPath, due |-> t + Debounce]

\* the pending timer of the folder, as clearTimeout removes it
Pending(fullPath) ==
    IF fullPath \in DOMAIN debounceTimers THEN {debounceTimers[fullPath]} ELSE {}

WatcherInit ==
    /\ posterFiles \in PosterFiles
    /\ config = [overwrite |-> FALSE]
    /\ catalog \in {c \in Catalogs : c["f1"].download = "decodable" /\ c["f1"].omdb = "data"}
    /\ calls = [c \in 1..MaxCalls |-> NoCall]
    /\ effects = {}
    \* start(): one chokidar watcher on the base folder
    /\ watchers = {"media"}
    /\ processing = {}
    /\ debounceTimers = <<>>
    /\ timers = {}
    /\ now = 0
    /\ eventTimes = [f \in FolderPaths |-> {}]
    /\ jobs = {}
    /\ ParserIdle
    /\ CompositorIdle
    /\ DetectorIdle
    /\ ScanIdle
    /\ ServerIdle

\* the two latest of the times: what is kept of a folder's events
Recent(times) ==
    {at \in times : Cardinality({other \in times : other > at}) <= 1}

\* a mutant of HandleNewDirectory: a folder that is being processed is not
\* skipped
HandleNewDirectoryWhileProcessing(dirPath) ==
    /\ watchers # {}
    /\ eventTimes' = [eventTimes EXCEPT ![dirPath[1]] = Recent(@ \cup {now})]
    /\ timers' = (timers \ Pending(dirPath[1])) \cup {Timer(dirPath[1], now)}
    /\ debounceTimers' = [f \in DOMAIN debounceTimers \cup {dirPath[1]} |->
            IF f = dirPath[1] THEN Timer(dirPath[1], now) ELSE debounceTimers[f]]
    /\ UNCHANGED <<watchers, processing, now, jobs, processorVars, parserVars,
                   compositorVars, detectorVars, scanVars, serverVars>>

\* a mutant of HandleNewDirectory: the pending timer is not cleared
HandleNewDirectoryNoClear(dirPath) ==
    /\ watchers # {}
    /\ eventTimes' = [eventTimes EXCEPT ![dirPath[1]] = Recent(@ \cup {now})]
    /\ IF dirPath[1] \in processing
       THEN UNCHANGED <<timers, debounceTimers>>
       ELSE /\ timers' = timers \cup {Timer(dirPath[1], now)}
            /\ debounceTimers' = [f \in DOMAIN debounceTimers \cup {dirPath[1]} |->
                    IF f = dirPath[1] THEN Timer(dirPath[1], now) ELSE debounceTimers[f]]
    /\ UNCHANGED <<watchers, processing, now, jobs, processorVars, parserVars,
                   compositorVars, detectorVars, scanVars, serverVars>>

\* An addDir or add event reaches handleNewDirectory(dirPath, baseFolder);
\* chokidar calls the listeners of an open watcher only.  dirPath[1] is the
\* top-level folder (fullPath); the base folder itself is ignored.
HandleNewDirectory(dirPath) ==
    /\ watchers # {}
    /\ eventTimes' = [eventTimes EXCEPT ![dirPath[1]] = Recent(@ \cup {now})]
    /\ IF dirPath[1] \in processing
       THEN UNCHANGED <<timers, debounceTimers>>
       ELSE /\ timers' = (timers \ Pending(dirPath[1])) \cup {Timer(dirPath[1], now)}
            /\ debounceTimers' = [f \in DOMAIN debounceTimers \cup {dirPath[1]} |->
                    IF f = dirPath[1] THEN Timer(dirPath[1], now) ELSE debounceTimers[f]]
    /\ UNCHANGED <<watchers, processing, now, jobs, processorVars, parserVars,
                   compositorVars, detectorVars, scanVars, serverVars>>

\* A timer runs, at its time or later: debounceTimers.delete(fullPath), then
\* processNewFolder(fullPath) up to the await inside processSingle.
TimerFires(timer) ==
    /\ timer \in timers
    /\ now >= timer.due
    /\ timers' = timers \ {timer}
    /\ debounceTimers' = [f \in DOMAIN debounceTimers \ {timer.folder} |-> debounceTimers[f]]
    /\ IF posterFiles[timer.folder].exists
       THEN UNCHANGED <<processing, jobs, calls, effects>>
       ELSE \E c \in 1..MaxCalls :
            LET first == beginItem([NoCall EXCEPT !.op = "processSingle"],
                                   MediaItem(timer.folder, FALSE, FALSE), config.overwrite)
            IN  /\ CanStart(c)
                /\ processing' = processing \cup {timer.folder}
                /\ jobs' = jobs \cup {c}
                /\ calls' = [calls EXCEPT ![c] = first]
                /\ effects' = effects \cup RequestSent(c, first)
    /\ UNCHANGED <<watchers, now, eventTimes, posterFiles, config, catalog, parserVars,
                   compositorVars, detectorVars, scanVars, serverVars>>

\* time passes
Tick ==
    /\ now < MaxTime
    /\ now' = now + 1
    /\ UNCHANGED <<watchers, processing, debounceTimers, timers, eventTimes, jobs,
                   processorVars, parserVars, compositorVars, detectorVars, scanVars,
                   serverVars>>

\* a mutant of Stop: the pending timers are not cleared
StopWithoutClear ==
    /\ watchers # {}
    /\ watchers' = {}
    /\ UNCHANGED <<timers, debounceTimers, processing, now, eventTimes, jobs,
                   processorVars, parserVars, compositorVars, detectorVars, scanVars,
                   serverVars>>

\* stop(): every watcher is closed, every pending timer cleared
Stop ==
    /\ watchers # {}
    /\ watchers' = {}
    /\ timers' = timers \ {debounceTimers[f] : f \in DOMAIN debounceTimers}
    /\ debounceTimers' = <<>>
    /\ UNCHANGED <<processing, now, eventTimes, jobs, processorVars, parserVars,
                   compositorVars, detectorVars, scanVars, serverVars>>

SpecWatcher ==
    WatcherInit /\ [][ \/ \E dirPath \in DirPaths : HandleNewDirectory(dirPath)
                       \/ \E timer \in timers : TimerFires(timer)
                       \/ Tick
                       \/ Stop
                       \/ \E c \in 1..MaxCalls :
                            \/ FindResponds(c)
                            \/ DownloadResponds(c)
                            \/ OmdbResponds(c)
                            \/ ComposeResponds(c) ]_vars

-----------------------------------------------------------------------------
(* Properties of the compositor *)

\* the source named by an entry of showRatings has data
HasData(type) ==
    \/ type = "imdb" /\ ratingSet.imdb # Undefined
    \/ type = "rt" /\ ratingSet.rottenTomatoes # Undefined
    \/ type = "metacritic" /\ ratingSet.metacritic # Undefined
    \/ type = "tmdb" /\ options.tmdbRating # Undefined /\ Get(options.tmdbRating) > 0

FirstN(s, n) == SubSeq(s, 1, IF Len(s) < n THEN Len(s) ELSE n)

TypesOf(bs) == [i \in 1..Len(bs) |-> bs[i].type]

\* C1: when the badge list that createRatedPoster collected is empty, the
\* promise is fulfilled with the posterBuffer object itself: nothing is
\* composited and nothing is encoded, whatever the style and the ratings.
C1_EmptyBadgesReturnInput ==
    (IsSome(output) /\ Get(output).badges = Some(<<>>)) =>
        /\ Get(output).status = "fulfilled"
        /\ Get(output).buffer = "posterBuffer"
        /\ Get(output).composite = Undefined

\* ratings are there, but none of the preferred sources has one: corner style
C1_Witness ==
    /\ IsSome(output)
    /\ Get(output).badges = Some(<<>>)
    /\ Get(output).buffer = "posterBuffer"
    /\ options.style = "badges"
    /\ options.showRatings # <<>>
    /\ ratingSet.imdb # Undefined

\* C2: the badge list is the first three entries of showRatings that name a
\* source with data, in their order: at most 3 badges, none without data.
C2_BadgesAreFirstThreeWithData ==
    IsSome(badgeList) =>
        /\ TypesOf(Get(badgeList)) = FirstN(SelectSeq(options.showRatings, HasData), 3)
        /\ Len(Get(badgeList)) <= 3
        /\ \A i \in 1..Len(Get(badgeList)) : HasData(Get(badgeList)[i].type)

\* four entries with data, one of them repeated: the fourth gets no badge
C2_Witness ==
    /\ IsSome(badgeList)
    /\ Len(SelectSeq(options.showRatings, HasData)) = 4
    /\ Len(Get(badgeList)) = 3
    /\ options.showRatings[1] = options.showRatings[2]

\* C3: in bar style the badge group is centred: the first badge's left edge
\* and the last badge's right edge are equally far from posterWidth / 2.
C3_BarGroupCentred ==
    (IsSome(overlay) /\ Get(overlay).style = "bar" /\ Len(Get(badgeList)) \in 1..3) =>
        LET items == Get(overlay).svg.items
            n == Len(items)
        IN  /\ n = Len(Get(badgeList))
            /\ items[1].x + (items[n].x + items[n].width) = Px(posterBuffer.width)

\* three badges of different widths that are wider than the poster
C3_Witness ==
    /\ IsSome(overlay)
    /\ Get(overlay).style = "bar"
    /\ revision = "v2"
    /\ Len(Get(badgeList)) = 3
    /\ Get(overlay).svg.items[1].x < 0
    /\ Get(overlay).svg.items[1].width # Get(overlay).svg.items[2].width
    /\ Get(overlay).svg.items[3].x + Get(overlay).svg.items[3].width > Px(posterBuffer.width)

Good == "#66CC33"
Mixed == "#FFCC33"
Poor == "#FF0000"

\* the integer a display value starts with, 0 when it starts with none
LeadingInteger(value) ==
    IF DigitsEnd(value, 1) > 1 THEN DecimalValue(SubSeq(value, 1, DigitsEnd(value, 1) - 1))
    ELSE 0

ThresholdColor(score) ==
    IF score >= 61 THEN Good ELSE IF score >= 40 THEN Mixed ELSE Poor

\* C4: in the bar, corner and minimal renderers of revision v2 a metacritic
\* badge has the threshold color of the integer its value starts with:
\* good from 61, mixed from 40 to 60, poor below 40 and without an integer.
C4_MetacriticThresholdColor ==
    (IsSome(overlay) /\ revision = "v2") =>
        \A i \in 1..Len(Get(badgeList)) :
            Get(badgeList)[i].type = "metacritic" =>
                /\ Get(overlay).svg.items[i].drawn
                /\ Get(overlay).svg.items[i].color =
                     ThresholdColor(LeadingInteger(Get(badgeList)[i].value))
                /\ Get(badgeList)[i].value = <<"7", "5">> =>
                     Get(overlay).svg.items[i].color = Good
                /\ Get(badgeList)[i].value = <<"5", "0">> =>
                     Get(overlay).svg.items[i].color = Mixed
                /\ Get(badgeList)[i].value \in {<<"2", "0">>, <<"a", "b", "c">>} =>
                     Get(overlay).svg.items[i].color = Poor

\* "75", "20" and "abc" drawn by the minimal renderer
C4_Witness ==
    /\ IsSome(overlay)
    /\ revision = "v2"
    /\ Get(overlay).style = "minimal"
    /\ Len(Get(badgeList)) = 3
    /\ Get(badgeList)[1].value = <<"7", "5">> /\ Get(overlay).svg.items[1].color = Good
    /\ Get(badgeList)[2].value = <<"2", "0">> /\ Get(overlay).svg.items[2].color = Poor
    /\ Get(badgeList)[3].value = <<"a", "b", "c">> /\ Get(overlay).svg.items[3].color = Poor
    /\ \A i \in 1..3 : Get(badgeList)[i].type = "metacritic"

-----------------------------------------------------------------------------
(* Properties of parseFolderName *)

HasBracketChar(s) == \E i \in 1..Len(s) : s[i] \in (Openers \cup Closers)

\* the positions at which four year-like digits (19xx, 20xx) start
YearPositions(s) == {d \in 1..Len(s) : YearDigitsAt(s, d)}
HasYearLike(s) == YearPositions(s) # {}

\* s without the characters of the match m (s itself when m is null)
DeleteMatch(s, m) ==
    IF IsSome(m)
    THEN SubSeq(s, 1, Get(m).index - 1) \o SubSeq(s, Get(m).last + 1, Len(s))
    ELSE s

GroupOf(m) == IF IsSome(m) THEN Some(Get(m).group) ELSE Undefined

\* the working string after the leftmost imdb token is deleted, then the
\* leftmost tmdb token of what is left, then the leftmost tvdb token
WithoutImdb(s) == DeleteMatch(s, IMDB_PATTERN(s, Min(MatchPositions("IMDB", s) \cup {Len(s) + 1})))
WithoutTmdb(s) == DeleteMatch(s, TMDB_PATTERN(s, Min(MatchPositions("TMDB", s) \cup {Len(s) + 1})))
WithoutTvdb(s) == DeleteMatch(s, TVDB_PATTERN(s, Min(MatchPositions("TVDB", s) \cup {Len(s) + 1})))
WithoutIdTokens(s) == WithoutTvdb(WithoutTmdb(WithoutImdb(s)))

\* C5 (as stated): re-parsing an extracted title gives the same title.
C5_TitleIdempotent ==
    IsSome(reparsed) => Get(reparsed).title = Get(parsed).title

\* C5 (amended): re-parsing an extracted title that holds no year-like
\* substring (19xx or 20xx) gives the same title and extracts nothing.
C5_TitleIdempotentWithoutYear ==
    (IsSome(reparsed) /\ ~HasYearLike(Get(parsed).title)) =>
        /\ Get(reparsed).title = Get(parsed).title
        /\ Get(reparsed).year = Undefined
        /\ Get(reparsed).imdbId = Undefined
        /\ Get(reparsed).tmdbId = Undefined
        /\ Get(reparsed).tvdbId = Undefined

\* a title with a blank in it, free of year-like digits, was re-parsed
C5_Witness ==
    /\ IsSome(reparsed)
    /\ IsSome(Get(parsed).year)
    /\ ~HasYearLike(Get(parsed).title)
    /\ \E i \in 1..Len(Get(parsed).title) : Get(parsed).title[i] = " "

\* C6: the IDs are extracted in the order imdb, tmdb, tvdb, each from the
\* working string left by the deletion of the tokens before it, and the year
\* is only ever taken from what is left once the extracted tokens are
\* deleted: digits inside an extracted token never become the year.
C6_YearNotFromIdToken ==
    IsSome(parsed) =>
        /\ Get(parsed).imdbId =
             GroupOf(IMDB_PATTERN(folderName,
                 Min(MatchPositions("IMDB", folderName) \cup {Len(folderName) + 1})))
        /\ Get(parsed).tmdbId =
             GroupOf(TMDB_PATTERN(WithoutImdb(folderName),
                 Min(MatchPositions("TMDB", WithoutImdb(folderName))
                       \cup {Len(WithoutImdb(folderName)) + 1})))
        /\ Get(parsed).tvdbId =
             GroupOf(TVDB_PATTERN(WithoutTmdb(WithoutImdb(folderName)),
                 Min(MatchPositions("TVDB", WithoutTmdb(WithoutImdb(folderName)))
                       \cup {Len(WithoutTmdb(WithoutImdb(folderName))) + 1})))
        /\ (IsSome(Get(parsed).year) => HasYearLike(WithoutIdTokens(folderName)))

\* a name whose only year-like digits are inside its extracted token
C6_Witness ==
    /\ IsSome(parsed)
    /\ \/ IsSome(Get(parsed).tmdbId) /\ HasYearLike(Get(Get(parsed).tmdbId))
       \/ IsSome(Get(parsed).imdbId) /\ HasYearLike(Get(Get(parsed).imdbId))
    /\ HasYearLike(folderName)
    /\ ~HasYearLike(WithoutIdTokens(folderName))
    /\ Get(parsed).year = Undefined

\* the working string w with the leftmost year-like digits deleted, together
\* with one opening bracket right before them and one closing bracket right
\* after them
WithoutFirstYear(w) ==
    LET d == Min(YearPositions(w))
        from == IF d > 1 /\ w[d - 1] \in Openers THEN d - 1 ELSE d
        to == IF d + 4 <= Len(w) /\ w[d + 4] \in Closers THEN d + 4 ELSE d + 3
    IN  SubSeq(w, 1, from - 1) \o SubSeq(w, to + 1, Len(w))

\* C7: the year is the leftmost year-like substring of the working string,
\* only that occurrence is removed (what follows it stays in the title), a
\* year is in 1900..2099, and without a year-like substring it is absent.
C7_LeftmostYearOnly ==
    IsSome(parsed) =>
        LET w == WithoutIdTokens(folderName)
        IN  IF HasYearLike(w)
            THEN /\ IsSome(Get(parsed).year)
                 /\ Get(Get(parsed).year) =
                      DecimalValue(SubSeq(w, Min(YearPositions(w)), Min(YearPositions(w)) + 3))
                 /\ Get(Get(parsed).year) \in 1900..2099
                 /\ Get(parsed).title = trim(normalizeWhitespace(removeBrackets(WithoutFirstYear(w))))
            ELSE Get(parsed).year = Undefined

\* two different year-like substrings: the left one is the year, the right
\* one is still in the title
C7_Witness ==
    /\ IsSome(parsed)
    /\ Get(parsed).year = Some(1919)
    /\ HasYearLike(Get(parsed).title)
    /\ Cardinality(YearPositions(folderName)) >= 2

\* C8: an input without any of the characters ( ) [ ] { } and without
\* year-like digits yields no year and no ID, and its title is the input
\* with whitespace runs collapsed to one space and both ends trimmed.
C8_PlainNameKept ==
    (IsSome(parsed) /\ ~HasBracketChar(folderName) /\ ~HasYearLike(folderName)) =>
        /\ Get(parsed).year = Undefined
        /\ Get(parsed).imdbId = Undefined
        /\ Get(parsed).tmdbId = Undefined
        /\ Get(parsed).tvdbId = Undefined
        /\ Get(parsed).title = trim(normalizeWhitespace(folderName))

\* a plain name with leading blanks and a run of blanks inside
C8_Witness ==
    /\ IsSome(parsed)
    /\ ~HasBracketChar(folderName)
    /\ ~HasYearLike(folderName)
    /\ folderName = <<" ", "a", " ", " ">>
    /\ Get(parsed).title = <<"a">>

\* C9: parseFolderName never throws; a field is absent exactly when its
\* pattern finds no match in the working string of its step, an absent
\* year is not 0, and an empty title is returned like any other.
C9_ParseTotal ==
    IsSome(parsed) =>
        /\ ~Get(parsed).threw
        /\ IsSome(Get(parsed).imdbId) <=> MatchPositions("IMDB", folderName) # {}
        /\ IsSome(Get(parsed).tmdbId) <=> MatchPositions("TMDB", WithoutImdb(folderName)) # {}
        /\ IsSome(Get(parsed).tvdbId)
             <=> MatchPositions("TVDB", WithoutTmdb(WithoutImdb(folderName))) # {}
        /\ IsSome(Get(parsed).year) <=> HasYearLike(WithoutIdTokens(folderName))
        /\ Get(parsed).year # Some(0)

\* the empty name, a name of brackets only, or a year only: an empty title
\* and nothing else found
C9_Witness ==
    /\ IsSome(parsed)
    /\ ~Get(parsed).threw
    /\ folderName \in {<<>>, <<"(", "]">>, <<"2", "0", "2", "0">>}
    /\ Get(parsed).title = <<>>
    /\ Get(parsed).imdbId = Undefined
    /\ Get(parsed).tmdbId = Undefined
    /\ Get(parsed).tvdbId = Undefined

-----------------------------------------------------------------------------
(* Properties of detectMediaType *)

\* the season-folder heuristic fires on the listing l
SeasonFolderFires(l) ==
    \E i \in 1..Len(l) : l[i].kind = "dir" /\ seasonTest(l[i].name)

\* the episode-file heuristic fires on the listing l
EpisodeFileFires(l) ==
    \E i \in 1..Len(l) :
        /\ l[i].kind = "file"
        /\ toLowerCase(extname(l[i].name)) \in VIDEO_EXTENSIONS
        /\ episodeTest(l[i].name)

\* C10: for a folder that was listed, the result is 'show' exactly when the
\* season-folder heuristic or the episode-file heuristic fires on an
\* immediate entry, and 'movie' when neither does.
C10_ShowIffEitherHeuristic ==
    (IsSome(mediaType) /\ IsSome(dirEntries)) =>
        /\ ~Get(mediaType).threw
        /\ Get(mediaType).type = "show"
             <=> (SeasonFolderFires(Get(dirEntries)) \/ EpisodeFileFires(Get(dirEntries)))
        /\ ~(SeasonFolderFires(Get(dirEntries)) \/ EpisodeFileFires(Get(dirEntries)))
             => Get(mediaType).type = "movie"

\* a show by its episode file alone: no season folder, an upper-case extension
C10_Witness ==
    /\ IsSome(mediaType)
    /\ IsSome(dirEntries)
    /\ Get(mediaType).type = "show"
    /\ ~SeasonFolderFires(Get(dirEntries))
    /\ EpisodeFileFires(Get(dirEntries))
    /\ Len(Get(dirEntries)) = 2
    /\ Get(dirEntries)[2].name = <<"1", "x", "0", "2", ".", "M", "P", "4">>

\* the whole of s from position i on is a number: one digit or more
NumberFrom(s, i) == i <= Len(s) /\ \A k \in i..Len(s) : IsDigit(s[k])

\* the name is the word season, in any case
IsSeasonWord(name) == toLowerCase(name) = <<"s", "e", "a", "s", "o", "n">>

\* the name is the word season and a number, with or without a space between
IsSeasonWithNumber(name) ==
    /\ Len(name) >= 7
    /\ IsSeasonWord(SubSeq(name, 1, 6))
    /\ \/ NumberFrom(name, 7)
       \/ name[7] = " " /\ NumberFrom(name, 8)

\* the name is a bare S<number> token
IsBareSNumber(name) == Len(name) >= 2 /\ Lower(name[1]) = "s" /\ NumberFrom(name, 2)

\* some immediate subdirectory of the listing l has a name that passes test
HasDirectoryNamed(l, test(_)) ==
    \E i \in 1..Len(l) : l[i].kind = "dir" /\ test(l[i].name)

\* C11 as stated: a subdirectory named season (a number being optional),
\* season with a number, or S<number> makes the folder a show.
C11_SeasonFolderNumberOptional ==
    (/\ IsSome(mediaType)
     /\ IsSome(dirEntries)
     /\ \/ HasDirectoryNamed(Get(dirEntries), IsSeasonWord)
        \/ HasDirectoryNamed(Get(dirEntries), IsSeasonWithNumber)
        \/ HasDirectoryNamed(Get(dirEntries), IsBareSNumber))
        => Get(mediaType).type = "show"

\* C11, amended: a subdirectory named season followed by a number, with or
\* without a space before it, or named S<number>, in any case, makes the
\* folder a show; the number is required.
C11_SeasonFolderWithNumber ==
    (/\ IsSome(mediaType)
     /\ IsSome(dirEntries)
     /\ \/ HasDirectoryNamed(Get(dirEntries), IsSeasonWithNumber)
        \/ HasDirectoryNamed(Get(dirEntries), IsBareSNumber))
        => Get(mediaType).type = "show"

\* a show by its one subdirectory season2, with no file in the folder
C11_Witness ==
    /\ IsSome(mediaType)
    /\ dirEntries = Some(<<[name |-> <<"s", "e", "a", "s", "o", "n", "2">>, kind |-> "dir"]>>)
    /\ Get(mediaType).type = "show"

\* C12: detectMediaType never raises an error: whatever the folder path,
\* also one that cannot be listed, the outcome is a classification value.
C12_DetectNeverRaises ==
    IsSome(mediaType) => (~Get(mediaType).threw /\ Get(mediaType).type \in {"movie", "show"})

-----------------------------------------------------------------------------
(* Properties of the placement of the overlays *)

\* the canvas size createRatedPoster works with
CanvasWidth == IF posterBuffer.width # 0 THEN posterBuffer.width ELSE 780
CanvasHeight == IF posterBuffer.height # 0 THEN posterBuffer.height ELSE 1170

\* createRatedPoster has composited an overlay of the given style
Composited(style) ==
    /\ IsSome(output)
    /\ Get(output).status = "fulfilled"
    /\ IsSome(Get(output).composite)
    /\ options.style = style

\* C13: in bar style the overlay is composited at left = 0 and
\* top = canvasHeight - barHeight, barHeight being the height of the bar
\* overlay itself and the overlay as wide as the canvas: the bottom edges
\* coincide, and the output has the width and height of the input.
C13_BarAnchoredAtBottom ==
    Composited("bar") =>
        LET layer == Get(Get(output).composite)
        IN  /\ layer.left = 0
            /\ layer.top = Px(CanvasHeight) - layer.input.height
            /\ layer.input.width = Px(CanvasWidth)
            /\ layer.top + layer.input.height = Px(CanvasHeight)
            /\ Get(output).width = posterBuffer.width
            /\ Get(output).height = posterBuffer.height

\* a 70 px bar composited at the bottom of a 333 x 500 poster
C13_Witness ==
    /\ Composited("bar")
    /\ revision = "v2"
    /\ posterBuffer.width = 333
    /\ Get(Get(output).composite).input.height = Px(70)
    /\ Get(Get(output).composite).top = Px(430)

\* C14: in bar style each badge's left edge is the left edge of the badge
\* before it plus that badge's estimated width plus the gap, and the widths
\* the badges are placed with add up, with the gaps between them, to the
\* group width accumulated beforehand.
C14_BarBadgesPlacedByEstimatedWidth ==
    (IsSome(overlay) /\ Get(overlay).style = "bar") =>
        LET svg == Get(overlay).svg
            n == Len(svg.items)
        IN  /\ \A i \in 1..(n - 1) :
                  svg.items[i + 1].x
                    = svg.items[i].x + svg.items[i].width + gapBetweenBadges(revision)
            /\ n >= 1 => svg.items[n].x + svg.items[n].width - svg.items[1].x = svg.groupWidth

\* three bar badges of three different estimated widths
C14_Witness ==
    /\ IsSome(overlay)
    /\ Get(overlay).style = "bar"
    /\ revision = "v1"
    /\ Len(Get(overlay).svg.items) = 3
    /\ Get(overlay).svg.items[1].width < Get(overlay).svg.items[2].width
    /\ Get(overlay).svg.items[2].width < Get(overlay).svg.items[3].width
    /\ Get(overlay).svg.items[3].x > Get(overlay).svg.items[2].x

\* the left inset and the row step of the corner style
CornerInset(variant) == IF variant = "v2" THEN Px(12) ELSE Px(10)
CornerRowStep(variant) == IF variant = "v2" THEN Px(55) ELSE Px(52)

\* C15: in corner style every badge is drawn at the same left inset, badge i
\* (counted from 0) at the vertical offset inset + i * rowStep, whatever the
\* canvas size: the offsets grow with the index, no two rows overlap, and
\* the overlay is anchored at the top left corner.
C15_CornerBadgesStacked ==
    Composited("badges") =>
        LET layer == Get(Get(output).composite)
            items == layer.input.items
        IN  /\ layer.top = 0
            /\ layer.left = 0
            /\ \A i \in 1..Len(items) :
                  /\ items[i].x = CornerInset(revision)
                  /\ items[i].y = CornerInset(revision) + (i - 1) * CornerRowStep(revision)
            /\ \A i \in 1..(Len(items) - 1) :
                  /\ items[i].y < items[i + 1].y
                  /\ items[i].y + items[i].height <= items[i + 1].y

\* three corner badges on the smaller poster
C15_Witness ==
    /\ Composited("badges")
    /\ posterBuffer.width = 333
    /\ Len(Get(Get(output).composite).input.items) = 3
    /\ Get(Get(output).composite).input.items[3].y = Px(12) + 2 * Px(55)

\* C16: every badge of the collected list is rendered: in every style the
\* overlay has one visible badge element for each entry of the list.
C16_EveryBadgeRendered ==
    (IsSome(output) /\ Get(output).status = "fulfilled" /\ IsSome(Get(output).composite)) =>
        LET items == Get(Get(output).composite).input.items
            badges == Get(Get(output).badges)
        IN  /\ Len(items) = Len(badges)
            /\ \A i \in 1..Len(items) : items[i].type = badges[i].type /\ items[i].drawn

-----------------------------------------------------------------------------
(* Properties of the processor *)

\* the message of the error sharp throws for bytes it cannot decode
DecodeError == "Input buffer contains unsupported image format"

\* the call c wrote poster.jpg into the folder f
Wrote(c, f) == Effect(c, "write", f) \in effects

\* the results processItem gave a call for the folder f, skips left out
ProcessedResults(call, f) ==
    {i \in 1..Len(call.results) :
        /\ ~call.dryRun
        /\ call.results[i].folderPath = f
        /\ call.results[i].message # "Skipped (poster exists)"}

\* C17: a base image that cannot be decoded reaches the caller as an error
\* it can tell from every other outcome, on both paths into the compositor:
\* processItem answers success = false with the compositor's message and
\* writes no poster.jpg, and preview does not answer what it answers when
\* TMDB has no match (null) nor a preview.
C17_DecodeFailureReachesCaller ==
    \A c \in 1..MaxCalls :
        LET call == calls[c] IN
        /\ ( /\ call.op = "preview"
             /\ call.pc = "returned"
             /\ call.posterBuffer = "undecodable" )
           => call.value \notin {"null", "preview", "preview without image"}
        /\ \A f \in FolderPaths :
             catalog[f].download = "undecodable" =>
                /\ ~Wrote(c, f)
                /\ \A i \in ProcessedResults(call, f) :
                     /\ ~call.results[i].success
                     /\ call.results[i].message = DecodeError

\* TMDB has a match with a poster for the folder f, and the poster decodes
PosterAvailable(f) ==
    catalog[f].find = "match" /\ catalog[f].download = "decodable"

\* the ratings of the item are missing: no IMDb id is known from the folder
\* name or from TMDB, or OMDB has no data, or the OMDB request fails
RatingsMissing(item) ==
    \/ ~(item.imdbId \/ catalog[item.folderPath].imdbId)
    \/ catalog[item.folderPath].omdb \in {"nodata", "fails"}

\* C18: missing ratings degrade gracefully in processItem.  With a TMDB match
\* and a poster, an item without IMDb id or without OMDB data (none, or a
\* failed request) is composed with the all-empty rating set, poster.jpg is
\* written and the result is success = true; a result is success = false
\* only when TMDB has no match or no poster or an error was thrown, and then
\* the call wrote nothing.
C18_MissingRatingsDegradeGracefully ==
    \A c \in 1..MaxCalls :
        LET call == calls[c] IN
        call.op \in {"processAll", "processSingle"} =>
            /\ ( /\ call.pc = "compose"
                 /\ RatingsMissing(call.item) )
               => ratingsOf(call) = NoRatings
            /\ \A f \in FolderPaths : \A i \in ProcessedResults(call, f) :
                 IF PosterAvailable(f)
                 THEN /\ call.results[i].success
                      /\ call.results[i].message = "Poster created"
                      /\ Wrote(c, f)
                      /\ posterFiles[f].exists
                 ELSE /\ ~call.results[i].success
                      /\ ~Wrote(c, f)

\* C18: a folder without known IMDb id, one without OMDB data and one whose
\* OMDB request failed were each processed with success
C18_Processed(missing(_)) ==
    \E c \in 1..MaxCalls : \E f \in FolderPaths :
        /\ missing(f)
        /\ PosterAvailable(f)
        /\ \E i \in ProcessedResults(calls[c], f) : calls[c].results[i].success
        /\ Wrote(c, f)

C18_OmdbFailed(f) == catalog[f].omdb = "fails"

C18_Witness == C18_Processed(C18_OmdbFailed)

C18_NoImdbId(f) == ~catalog[f].imdbId /\ f \notin NamedWithImdbId

C18_WitnessNoImdbId == C18_Processed(C18_NoImdbId)

\* C19: with overwrite = false an existing poster.jpg is never overwritten:
\* no step of processAll, processItem or processSingle, in any interleaving,
\* changes a poster.jpg that exists while config.overwrite is false.
C19_ExistingPosterNeverOverwritten ==
    [][\A f \in FolderPaths :
        (posterFiles[f].exists /\ ~config.overwrite)
            => posterFiles'[f] = posterFiles[f]]_vars

\* the dry runs: the calls processAll(onProgress, true, overwriteAll)
DryRuns == {c \in 1..MaxCalls : calls[c].op = "processAll" /\ calls[c].dryRun}

\* C20: a dry run makes no changes.  A processAll call with dryRun = true
\* sends no TMDB or OMDB request and writes no file, never waits inside
\* processItem, and returns one success result per scanned item, in scan
\* order, with 'Would generate poster' exactly when the item has no poster
\* or overwrite is set (in the configuration or by overwriteAll), and
\* 'Would skip (poster exists)' otherwise.
C20_DryRunMakesNoChanges ==
    \A c \in DryRuns :
        LET call == calls[c] IN
        /\ \A e \in effects : e.call # c
        /\ call.pc \in {"returned", "threw"}
        /\ call.value = "results" =>
             /\ Len(call.results) = Len(call.items)
             /\ \A i \in 1..Len(call.items) :
                  /\ call.results[i].folderPath = call.items[i].folderPath
                  /\ call.results[i].success
                  /\ call.results[i].message =
                        IF \/ ~call.items[i].hasPoster
                           \/ call.originalOverwrite
                           \/ call.overwriteAll
                        THEN "Would generate poster"
                        ELSE "Would skip (poster exists)"

\* C20: a dry run returned both messages
C20_Witness ==
    \E c \in DryRuns :
        /\ calls[c].value = "results"
        /\ \E i \in 1..Len(calls[c].results) :
             calls[c].results[i].message = "Would generate poster"
        /\ \E i \in 1..Len(calls[c].results) :
             calls[c].results[i].message = "Would skip (poster exists)"

\* C20: a dry run with overwrite set would regenerate an existing poster,
\* while another call has sent requests
C20_WitnessOverwrite ==
    \E c \in DryRuns :
        /\ calls[c].value = "results"
        /\ \E i \in 1..Len(calls[c].results) :
             /\ calls[c].items[i].hasPoster
             /\ calls[c].results[i].message = "Would generate poster"
        /\ effects # {}

-----------------------------------------------------------------------------
(* Properties of the scan *)

\* C21: within the item list of one scan, folderPath identifies the item: no
\* two items of scanAllFolders(mediaFolders) have the same folderPath,
\* whatever list of media folders is configured.
C21_FolderPathUnique ==
    IsSome(scanResult) =>
        \A i \in 1..Len(Get(scanResult)) : \A j \in 1..Len(Get(scanResult)) :
            Get(scanResult)[i].folderPath = Get(scanResult)[j].folderPath => i = j

-----------------------------------------------------------------------------
(* Properties of the server *)

\* the bulk runs started through POST /api/process that have not settled
RunsInFlight == {c \in 1..MaxCalls : ByServer(c) /\ stillProcessing(calls[c])}

\* C22: at most one bulk run started through POST /api/process is in flight
\* at any time, and isProcessing is set exactly while one is; a request that
\* arrives while isProcessing is set is answered 409, starts no processAll
\* and leaves isProcessing, processResults and processProgress unchanged.
C22_OneBulkRunAtATime ==
    /\ [](Cardinality(RunsInFlight) <= 1 /\ (isProcessing <=> RunsInFlight # {}))
    /\ [][(isProcessing /\ requests' # requests) =>
            /\ requests' = Append(requests, [status |-> 409, call |-> 0])
            /\ UNCHANGED <<isProcessing, processResults, processProgress, calls,
                           config, effects, posterFiles>>]_vars

\* C22: a request was refused while a run is still in flight
C22_Witness ==
    /\ isProcessing
    /\ \E i \in 1..Len(requests) : requests[i].status = 409
    /\ \E i \in 1..Len(requests) : requests[i].status = 200

\* the bulk runs accepted through POST /api/process, by request
AcceptedRuns == {i \in 1..Len(requests) : requests[i].status = 200}

\* C23: after POST /api/process is accepted, isProcessing returns to false
\* once processAll settles, by resolving or by rejecting (a scan that
\* throws); the flag is never left set, and a later POST /api/process is
\* accepted again.
C23_ProcessingFlagReleased ==
    /\ [](RunsInFlight = {} => ~isProcessing)
    /\ [][(RunsInFlight = {} /\ requests' # requests) =>
            requests'[Len(requests')].status = 200]_vars
    /\ (isProcessing ~> ~isProcessing)

\* C23: a run whose scan threw was followed by a run that was accepted
C23_Witness ==
    \E i \in AcceptedRuns :
        /\ calls[requests[i].call].pc = "threw"
        /\ i < Len(requests)
        /\ requests[i + 1].status = 200
        /\ isProcessing

-----------------------------------------------------------------------------
(* Properties of the folder watcher *)

\* the jobs of processNewFolder that are in flight for the folder f
JobsInFlight(f) ==
    {c \in jobs : calls[c].item.folderPath = f /\ calls[c].pc # "returned"}

\* the timers pending in the runtime for the folder f
TimersOf(f) == {timer \in timers : timer.folder = f}

\* C24: the watcher never runs two jobs for one top-level folder at the same
\* time.  A folder is in the processing set exactly while a processNewFolder
\* job for it is in flight, whether the job ends with success or with
\* failure; no timer is pending for a folder that is being processed, and
\* an event for such a folder schedules none.
C24_OneJobPerFolder ==
    /\ [](\A f \in FolderPaths :
            /\ Cardinality(JobsInFlight(f)) <= 1
            /\ (f \in processing <=> JobsInFlight(f) # {})
            /\ (f \in processing => TimersOf(f) = {}))
    /\ [][\A f \in FolderPaths :
            (f \in processing /\ f \in processing') =>
                /\ {timer \in timers' : timer.folder = f} = {}
                /\ f \notin DOMAIN debounceTimers']_vars

\* C24: a job has ended with a failure and its folder has left the set,
\* after an event for the folder arrived while the job was in flight
C24_Witness ==
    \E c \in jobs :
        /\ calls[c].pc = "returned"
        /\ ~calls[c].results[1].success
        /\ calls[c].item.folderPath \notin processing
        /\ \E at \in eventTimes[calls[c].item.folderPath] : at >= Debounce
        /\ TimersOf(calls[c].item.folderPath) = {}

\* the time of the last event for the folder f
LastEvent(f) == CHOOSE at \in eventTimes[f] : \A other \in eventTimes[f] : other <= at

\* a timer of the folder f runs in this step
Fires(f) ==
    /\ TimersOf(f) # {}
    /\ {timer \in timers' : timer.folder = f} = {}
    /\ watchers' = watchers

\* C25: the watcher debounces per top-level folder.  At most one timer is
\* pending per folder, and it is the timer of the folder's last event (a new
\* event cancels and replaces the pending one); a timer runs, and
\* processNewFolder starts, only when 5 seconds have passed since the last
\* event for the folder; a job starts only when a timer runs, and one burst
\* of events starts one job (none when poster.jpg exists).
C25_DebouncePerFolder ==
    /\ [](\A f \in FolderPaths :
            /\ Cardinality(TimersOf(f)) <= 1
            /\ (f \in DOMAIN debounceTimers <=> TimersOf(f) # {})
            /\ (TimersOf(f) # {} => TimersOf(f) = {Timer(f, LastEvent(f))}))
    /\ [][\A f \in FolderPaths :
            Fires(f) =>
                /\ now >= LastEvent(f) + Debounce
                /\ (jobs' = jobs <=> posterFiles[f].exists)
                /\ Cardinality(jobs' \ jobs) <= 1
                /\ \A c \in jobs' \ jobs : calls'[c].item.folderPath = f]_vars
    /\ [][jobs' # jobs => \E f \in FolderPaths : Fires(f)]_vars

\* C25: a burst of events at different times for one folder was followed,
\* 5 seconds after its last event, by the only job for the folder
C25_Witness ==
    \E c \in jobs :
        LET f == calls[c].item.folderPath IN
        /\ calls[c].pc = "find"
        /\ Cardinality(eventTimes[f]) >= 2
        /\ now = LastEvent(f) + Debounce
        /\ \A d \in jobs : calls[d].item.folderPath = f => d = c

ProcessAllInFlight ==
    {c \in 1..MaxCalls :
        calls[c].op = "processAll" /\ calls[c].pc \notin {"returned", "threw"}}

\* the configured overwrite setting, as the first processAll call to read it
\* saved it: nothing but processAll writes config.overwrite
FirstSaved(c) ==
    /\ calls[c].op = "processAll" /\ calls[c].pc # "threw"
    /\ \A d \in 1..(c - 1) : ~(calls[d].op = "processAll" /\ calls[d].pc # "threw")

\* C26: whenever no processAll call is in flight, config.overwrite has the
\* configured value again, however calls with and without overwriteAll overlap.
C26_OverwriteRestored ==
    ProcessAllInFlight = {} =>
        \A c \in 1..MaxCalls :
            FirstSaved(c) => config.overwrite = calls[c].originalOverwrite

\* the processAll calls whose scan has returned
Scanned == {c \in 1..MaxCalls : calls[c].op = "processAll" /\ calls[c].pc # "threw"}

\* the results and the progress reports of a call so far cover the first n
\* items, in scan order, with current = 1, 2, ..., n
InScanOrder(call, n) ==
    /\ Len(call.results) = n
    /\ Len(call.progress) = n
    /\ n <= Len(call.items)
    /\ \A i \in 1..n :
        /\ call.results[i].folderPath = call.items[i].folderPath
        /\ call.progress[i] = [current |-> i, total |-> Len(call.items)]

\* C27: processAll handles the scanned items one after another in scan order:
\* while it works on item i it holds the results of items 1..i-1, it returns
\* one result per item in that order, and it reports progress once per item
\* with current = 1, 2, ..., total, where total is the number of scanned items.
C27_ItemsInScanOrder ==
    /\ [](\A c \in Scanned :
            LET call == calls[c]
            IN  CASE call.pc \in {"find", "download", "omdb", "compose"} ->
                        /\ call.index \in 1..Len(call.items)
                        /\ call.item = call.items[call.index]
                        /\ InScanOrder(call, call.index - 1)
                  [] call.pc = "delay" -> InScanOrder(call, call.index)
                  [] call.pc = "returned" -> InScanOrder(call, Len(call.items)))
    /\ [][\A c \in Scanned :
            /\ Len(calls'[c].results) \in
                    {Len(calls[c].results), Len(calls[c].results) + 1}
            /\ Len(calls'[c].progress) = Len(calls'[c].results)]_vars

C27_Witness ==
    \E c \in Scanned :
        /\ ~calls[c].dryRun
        /\ calls[c].pc = "returned"
        /\ Len(calls[c].items) = 2
        /\ calls[c].progress[2] = [current |-> 2, total |-> 2]
        /\ calls[c].results[1].message # "Skipped (poster exists)"

\* the call c is inside processItem for the folder f: between the skip test
\* and the write of poster.jpg
Processes(c, f) ==
    /\ calls[c].op \in {"processAll", "processSingle"}
    /\ calls[c].pc \in {"find", "download", "omdb", "compose"}
    /\ calls[c].item.folderPath = f

\* C28: no media folder is processed by two operations at the same time across
\* entry points: a processSingle call, which is what POST /api/process-single
\* and a watcher job make, is never inside processItem for a folder together
\* with a bulk run or with another processSingle call for that folder.
C28_OneOperationPerFolder ==
    \A f \in FolderPaths :
        \A c, d \in 1..MaxCalls :
            Processes(c, f) /\ Processes(d, f) /\ calls[d].op = "processSingle"
                => c = d

=============================================================================
